---- MODULE Spec2Model ----
(***************************************************************************)
(* Bathbot: command gating (authority check, rate limit), the command      *)
(* router's sequencing of the gates, and the reaction-driven profile       *)
(* pagination session.                                                     *)
(***************************************************************************)
EXTENDS Integers, Sequences, FiniteSets, TLC

\* ------------------------------------------------------------------ values

\* Option<T>: None is the empty tuple, Some(x) the one-element tuple.
None == << >>
Some(x) == << x >>

\* Snowflake ids: users, guilds and roles never share an id.
Users == {1, 2}
Guilds == {3}
Roles == {11, 12}

ADMINISTRATOR == "ADMINISTRATOR"

Range(s) == {s[i] : i \in DOMAIN s}

\* Sequences over S without repetition, of length at most n.
DistinctSeqs(S, n) ==
    {s \in UNION {[1..k -> S] : k \in 0..n} : \A i, j \in DOMAIN s : i # j => s[i] # s[j]}

VARIABLES
    \* EntityCache and guild configuration
    members,        \* members[g][u]: Option<set of role ids> (the cached member)
    rolePerms,      \* rolePerms[r]: permission bits of the cached role
    authorities,    \* authorities[g]: GuildConfig.authorities, in configured order
    \* last authority check
    authCall,       \* Option<[author, guild_id]>: the Authored the check ran on
    authResult,     \* Option<result of check_authority>
    authPrev,       \* Option<[call, result]>: the authority check before the last one
    \* BucketRegistry
    now,            \* the clock (seconds)
    buckets,        \* buckets[name][key]: Option<[units, last_refill]>
    granted,        \* granted[name][key]: times at which a check on the key passed
    rlCall,         \* Option<[author, guild_id, bucket]>: last rate-limit check
    rlResult,       \* Option<result of check_ratelimit>: None when the check returned nothing
    rlTrace,        \* what the last rate-limit check did: the take's cooldown, a panic
    shadow,         \* the registry of a run in which some rejected takes were never made
    calls,          \* requests followed so far
    tasks,          \* tasks[t]: a task inside check_ratelimit, its position and what it holds
    holder,         \* holder[name]: Option<task> holding the bucket's mutex
    \* CommandRouter
    inv,            \* Option<[author, guild_id, cmd]>: the invocation in progress or last finished
    rpc,            \* the router's position in the invocation
    invAuth,        \* variant the authority check returned for it, or "NotRun"
    invTakes,       \* rate-limit checks attempted for it
    invCool,        \* Option<cooldown its take returned>
    outcome,        \* ProcessResult of the last finished invocation
    \* ProfilePagination session
    phase,          \* "New", "Active", "Closing", "Closed"
    spc,            \* position inside start
    minimized,      \* self.minimized
    inbox,          \* reactions the standby stream holds for the session
    idle,           \* seconds since the stream last yielded an item
    elapsed,        \* seconds since start was called
    stored,         \* whether ctx holds msg.id (store_msg / remove_msg)
    sent,           \* reactions installed so far
    shown,          \* embed the message shows
    inflight,       \* update_message requests awaiting their reply, oldest first
    lastReaction,   \* Option<ReactionAdd>: last reaction the gateway dispatched
    lastEvent,      \* Option<ReactionAdd>: last reaction handed to next_page
    eventChange,    \* PageChange next_page computed for lastEvent
    eventUpdates,   \* update_message calls issued for lastEvent
    exitCause,      \* why the event loop ended
    removed,        \* own reactions removed during cleanup
    allReply,       \* what delete_all_reactions answered: "none" before it did
    ownRequests,    \* delete_current_user_reaction requests issued, in order
    finalUpdates,   \* update_message requests issued after the loop
    retval,         \* Option<result of start>
    \* EntityCache ingestion
    stream,         \* stream[u]: member events the gateway delivered for u, in order
    handed,         \* handed[u]: how many of them the pipeline has handed to a writer
    applied,        \* applied[u]: how many writes to the member's entry have finished
    writers,        \* writers[w]: [pc, entity, event] of an ingesting task
    entityLock,     \* entityLock[u]: Option<writer> writing the member's entry
    \* roll command
    rollData,       \* the CommandData roll was called with
    rollPc,         \* "idle", "called" (in roll), "limit" (in _roll), "done"
    rollLimit,      \* Option<u64>: the limit _roll was called with
    rollOut,        \* Option<[kind, num]>: the number rolled, or the panic
    \* addbg command
    bgData,         \* [attachment, arg]: the message addbg was called with
    bgPc,           \* "idle", "called", "store", "prepare", "done"
    bgMode,         \* Option<GameMode> parsed from the argument
    bgFiles,        \* bgFiles[mode][filename]: Option<content> under CONFIG.bg_path
    bgBefore,       \* bgFiles when addbg was called
    bgTags,         \* mapset ids with an entry in the tags table
    bgOut,          \* Option<[kind, why]>: how addbg ended
    \* prepare_beatmap_file
    mapFile,        \* Option<set of chunks>: the file {map_id}.osu, None if absent
    mapPc,          \* mapPc[t]: "called", "download", "create", "write", "done"
    mapWritten,     \* mapWritten[t]: chunks write_all of call t has written
    mapRet,         \* mapRet[t]: Option<"Ok" | "Err">
    mapSeen,        \* mapSeen[t]: the file when call t returned Ok
    downloads,      \* number of get_map_file requests
    \* insert_guilds
    configs,        \* configs[g]: Option<GuildConfig>, the in-memory map
    configsBefore,  \* configs when insert_guilds was called
    guilds,         \* guilds[g]: Option<row>, the committed guilds table
    guildsBefore,   \* guilds when insert_guilds was called
    txn,            \* Option<rows written in the open transaction>
    todo,           \* keys configs.iter() has not yielded yet
    guildCounter,   \* the counter of insert_guilds
    guildPc,        \* "idle", "called", "loop", "done"
    guildRet        \* Option<[kind, n]>: Ok(counter) or Err

gateVars == << members, rolePerms, authorities, authCall, authResult, authPrev >>
bucketVars == << now, buckets, granted, rlCall, rlResult, rlTrace, shadow, calls, tasks, holder >>
routerVars == << inv, rpc, invAuth, invTakes, invCool, outcome >>
sessionVars == << phase, spc, minimized, inbox, idle, elapsed, stored, sent, shown,
                  inflight, lastReaction, lastEvent, eventChange, eventUpdates,
                  exitCause, removed, allReply, ownRequests, finalUpdates, retval >>
cacheVars == << stream, handed, applied, writers, entityLock >>
rollVars == << rollData, rollPc, rollLimit, rollOut >>
bgVars == << bgData, bgPc, bgMode, bgFiles, bgBefore, bgTags, bgOut >>
mapVars == << mapFile, mapPc, mapWritten, mapRet, mapSeen, downloads >>
guildVars == << configs, configsBefore, guilds, guildsBefore, txn, todo, guildCounter,
               guildPc, guildRet >>
vars == << gateVars, bucketVars, routerVars, sessionVars, cacheVars, rollVars, bgVars,
           mapVars, guildVars >>

\* ------------------------------------------------------------ AuthorityGate

\* Every Authored value: the author may be missing (an interaction without
\* member and user), the guild is absent in direct messages.
Authoreds == [author : {None} \cup {Some(u) : u \in Users},
              guild_id : {None} \cup {Some(g) : g \in Guilds}]

\* ctx.cache.member(guild_id, user_id)
member(guild_id, user_id) == members[guild_id][user_id]

\* a permission computation that answers a missing member with no permissions
permissions_root_or_empty(user_id, guild_id) ==
    IF members[guild_id][user_id] = None
    THEN Some({})
    ELSE Some(UNION {rolePerms[r] : r \in members[guild_id][user_id][1]})

\* ctx.cache.permissions().root(user_id, guild_id), as Result::ok() sees it:
\* the union of the permission bits of the member's roles, or a miss when
\* the member is not cached.
permissions_root(user_id, guild_id) ==
    IF member(guild_id, user_id) = None
    THEN None
    ELSE Some(UNION {rolePerms[r] : r \in member(guild_id, user_id)[1]})

\* a collaborator that hands the roles out in another order on every later call
config_authorities_collect_unstable(guild_id) ==
    IF authCall = None
    THEN authorities[guild_id]
    ELSE [i \in DOMAIN authorities[guild_id] |->
             authorities[guild_id][Len(authorities[guild_id]) + 1 - i]]

\* ctx.config_authorities_collect(guild_id, to_role)
config_authorities_collect(guild_id) == authorities[guild_id]

\* the first role written twice over and the last one never
write_roles_first_only(auth_roles) ==
    [i \in DOMAIN auth_roles |-> [sep |-> IF i = 1 THEN "" ELSE ", ", role |-> auth_roles[1]]]

\* The mentions the loop over auth_roles.into_iter() writes: "<@&first>",
\* then ", <@&role>" for every further role, in the order of the list.
write_roles(auth_roles) ==
    [i \in DOMAIN auth_roles |-> [sep |-> IF i = 1 THEN "" ELSE ", ", role |-> auth_roles[i]]]

\* The messages, split into the text before the role list, the roles and the
\* text after it (the source's backquotes around /authorities are left out:
\* a TLA+ string cannot hold them).
AdminContent ==
    [text |-> "You need admin permissions to use this command.\n",
     roles |-> << >>,
     footer |-> "(/authorities to adjust authority status for this server)"]

RolesContent(auth_roles) ==
    [text |-> "You need either admin permissions or any of these roles to use this command:\n",
     roles |-> write_roles(auth_roles),
     footer |-> "\n(/authorities to adjust authority status for this server)"]

EmptyContent == [text |-> "", roles |-> << >>, footer |-> ""]

\* Ok(None), Ok(Some(content)) and Err(_); reads lists the collaborators the
\* check consulted on its way.
Allowed(reads) ==
    [variant |-> "Allowed", content |-> EmptyContent, error |-> "", reads |-> reads]
Denied(content, reads) ==
    [variant |-> "Denied", content |-> content, error |-> "", reads |-> reads]
Indeterminate(error, reads) ==
    [variant |-> "Indeterminate", content |-> EmptyContent, error |-> error, reads |-> reads]

\* permissions.ok().unwrap_or_else(Permissions::empty)
unwrap_or_empty(permissions) == IF permissions = None THEN {} ELSE permissions[1]

\* RoleBranch with an uncached member denied like a member without the roles
RoleBranchSilentDeny(author_id, guild_id, auth_roles) ==
    IF auth_roles = << >>
    THEN Denied(AdminContent, {"permissions", "config"})
    ELSE IF member(guild_id, author_id) # None
            /\ \E role \in member(guild_id, author_id)[1] : role \in Range(auth_roles)
         THEN Allowed({"permissions", "config", "member"})
         ELSE Denied(RolesContent(auth_roles), {"permissions", "config", "member"})

\* RoleBranch asking for every role of the member to be an authority role
RoleBranchAll(author_id, guild_id, auth_roles) ==
    IF auth_roles = << >>
    THEN Denied(AdminContent, {"permissions", "config"})
    ELSE IF member(guild_id, author_id) # None
         THEN IF ~ \A role \in member(guild_id, author_id)[1] : role \in Range(auth_roles)
              THEN Denied(RolesContent(auth_roles), {"permissions", "config", "member"})
              ELSE Allowed({"permissions", "config", "member"})
         ELSE Indeterminate("member not cached for guild", {"permissions", "config", "member"})

\* RoleBranch looking the member up before it looks at the list
RoleBranchMemberFirst(author_id, guild_id, auth_roles) ==
    IF member(guild_id, author_id) = None
    THEN Indeterminate("member not cached for guild", {"permissions", "config", "member"})
    ELSE IF auth_roles = << >>
         THEN Denied(AdminContent, {"permissions", "config", "member"})
         ELSE IF ~ \E role \in member(guild_id, author_id)[1] : role \in Range(auth_roles)
              THEN Denied(RolesContent(auth_roles), {"permissions", "config", "member"})
              ELSE Allowed({"permissions", "config", "member"})

\* the branch taken once the guild's authority roles are known
RoleBranch(author_id, guild_id, auth_roles) ==
    IF auth_roles = << >>
    THEN Denied(AdminContent, {"permissions", "config"})
    ELSE IF member(guild_id, author_id) # None
         THEN IF ~ \E role \in member(guild_id, author_id)[1] : role \in Range(auth_roles)
              THEN Denied(RolesContent(auth_roles), {"permissions", "config", "member"})
              ELSE Allowed({"permissions", "config", "member"})
         ELSE Indeterminate("member not cached for guild", {"permissions", "config", "member"})

\* the check without its direct-message arm: no guild is treated as allowed
_check_authority_no_dm_arm(author_id, guild_id) ==
    IF guild_id = None
    THEN Allowed({})
    ELSE IF ADMINISTRATOR \in unwrap_or_empty(permissions_root(author_id, guild_id[1]))
         THEN Allowed({"permissions"})
         ELSE RoleBranch(author_id, guild_id[1], config_authorities_collect(guild_id[1]))

\* the administrator bit overlooked
is_admin_never(permissions) == FALSE

\* permissions.contains(Permissions::ADMINISTRATOR)
is_admin(permissions) == ADMINISTRATOR \in permissions

_check_authority(author_id, guild_id) ==
    IF guild_id = None
    THEN Denied(EmptyContent, {})
    ELSE IF is_admin(unwrap_or_empty(permissions_root(author_id, guild_id[1])))
         THEN Allowed({"permissions"})
         ELSE RoleBranch(author_id, guild_id[1], config_authorities_collect(guild_id[1]))

check_authority(authored) ==
    IF authored.author = None
    THEN Indeterminate("MissingInteractionAuthor", {})
    ELSE _check_authority(authored.author[1], authored.guild_id)

\* One authority check on an arbitrary Authored.
CheckAuthority ==
    \E authored \in Authoreds :
        /\ authCall' = Some(authored)
        /\ authResult' = Some(check_authority(authored))
        /\ authPrev' = IF authCall = None
                       THEN None
                       ELSE Some([call |-> authCall[1], result |-> authResult[1]])
        /\ UNCHANGED << members, rolePerms, authorities >>
        /\ UNCHANGED << bucketVars, routerVars, sessionVars, cacheVars, rollVars, bgVars, mapVars, guildVars >>

\* ----------------------------------------------------------- BucketRegistry

\* BucketName::Snipe, BucketName::Songs, and a name of the `_` arm.
BucketNames == {"Snipe", "Songs", "Other"}

\* Units a counter holds when full, and seconds after which a unit comes back.
Capacity == 2
Interval == 3
\* The clock stops here, and so many requests are followed.
MaxTime == 4
MaxCalls == 3
\* Checks followed in the runs on few keys.
MaxTakes == 5

\* Keys a counter can be filed under: the shared key 0, an author, a guild.
Keys == {0} \cup Users \cup Guilds

Min(a, b) == IF a < b THEN a ELSE b

\* Units that came back since the counter's last refill, one per Interval.
Refilled(counter, time) ==
    IF (time - counter.last_refill) \div Interval > 0
    THEN [units |-> Min(Capacity, counter.units + (time - counter.last_refill) \div Interval),
          last_refill |-> time]
    ELSE counter

\* The key's counter as a take at `time` finds it: created full on first use.
CounterAt(bucket_elem, key, time) ==
    IF bucket_elem[key] = None
    THEN [units |-> Capacity, last_refill |-> time]
    ELSE Refilled(bucket_elem[key][1], time)

\* a take that restarts the key's interval whenever it rejects
take_penalizing(bucket_elem, key, time) ==
    IF CounterAt(bucket_elem, key, time).units > 0
    THEN [cooldown |-> 0,
          elem |-> [bucket_elem EXCEPT ![key] =
                        Some([CounterAt(bucket_elem, key, time) EXCEPT !.units = @ - 1])]]
    ELSE [cooldown |-> CounterAt(bucket_elem, key, time).last_refill + Interval - time,
          elem |-> [bucket_elem EXCEPT ![key] =
                        Some([CounterAt(bucket_elem, key, time) EXCEPT !.last_refill = time])]]

\* Bucket::take(key): consumes one unit and returns 0, or returns the time
\* until the next unit and leaves the counter as it was.
take(bucket_elem, key, time) ==
    IF CounterAt(bucket_elem, key, time).units > 0
    THEN [cooldown |-> 0,
          elem |-> [bucket_elem EXCEPT ![key] =
                        Some([CounterAt(bucket_elem, key, time) EXCEPT !.units = @ - 1])]]
    ELSE [cooldown |-> CounterAt(bucket_elem, key, time).last_refill + Interval - time,
          elem |-> bucket_elem]

\* A BucketName the registry holds no entry for, and a string that is no
\* BucketName at all.
Unlisted == "Unlisted"
Unparsable == "nonsense"

\* What a command can name as its bucket.
BucketArgs == BucketNames \cup {Unlisted, Unparsable}

\* bucket.as_ref().parse(): the BucketName the string spells, if any
parse(bucket) == IF bucket \in BucketNames \cup {Unlisted} THEN Some(bucket) ELSE None

\* ctx.buckets.get(&bucket)
get(bucket) == IF bucket \in DOMAIN buckets THEN Some(buckets[bucket]) ELSE None

\* An unwrap on None: the check ends in a panic and returns nothing.
Panicked == [result |-> None, key |-> None, elem |-> << >>, taken |-> None, panic |-> TRUE]

\* The check returns None without having taken.
NotTaken == [result |-> None, key |-> None, elem |-> << >>, taken |-> None, panic |-> FALSE]

\* Snipe keyed like the buckets of the `_` arm
RatelimitKeyPerAuthor(author_id, guild_id, bucket) ==
    CASE bucket = "Songs" -> IF guild_id = None THEN author_id ELSE guild_id[1]
      [] OTHER -> author_id

\* the match of _check_ratelimit keying every bucket but Snipe by guild
RatelimitKeyGuildFirst(author_id, guild_id, bucket) ==
    CASE bucket = "Snipe" -> 0
      [] OTHER -> IF guild_id = None THEN author_id ELSE guild_id[1]

\* the key the match of _check_ratelimit takes with
RatelimitKey(author_id, guild_id, bucket) ==
    CASE bucket = "Snipe" -> 0
      [] bucket = "Songs" -> IF guild_id = None THEN author_id ELSE guild_id[1]
      [] OTHER -> author_id

\* the comparison letting a cooldown of zero through as a rejection
RatelimitResultNonNegative(ratelimit, bucket) ==
    IF ratelimit >= 0 THEN Some([cooldown |-> ratelimit, bucket |-> bucket]) ELSE None

\* the comparison off by one: a cooldown of one second passes
RatelimitResultOffByOne(ratelimit, bucket) ==
    IF ratelimit > 1 THEN Some([cooldown |-> ratelimit, bucket |-> bucket]) ELSE None

\* `if ratelimit > 0 { return Some((ratelimit, bucket)) } None`
RatelimitResult(ratelimit, bucket) ==
    IF ratelimit > 0 THEN Some([cooldown |-> ratelimit, bucket |-> bucket]) ELSE None

\* _check_ratelimit: `ctx.buckets.get(&bucket).unwrap()`, then the take under
\* the bucket's lock; the result, the key it took with, the bucket's new
\* state and the cooldown the take returned
_check_ratelimit(author_id, guild_id, bucket) ==
    IF get(bucket) = None
    THEN Panicked
    ELSE LET key == RatelimitKey(author_id, guild_id, bucket)
             taken == take(get(bucket)[1], key, now)
         IN  [result |-> RatelimitResult(taken.cooldown, bucket),
              key |-> Some(key),
              elem |-> taken.elem,
              taken |-> Some(taken.cooldown),
              panic |-> FALSE]

\* the bucket's name parsed before the author is looked at
check_ratelimit_parse_first(authored, bucket) ==
    IF parse(bucket) = None
    THEN Panicked
    ELSE IF authored.author = None
         THEN NotTaken
         ELSE _check_ratelimit(authored.author[1], authored.guild_id, parse(bucket)[1])

\* check_ratelimit taking for a missing author with the key 0
check_ratelimit_anonymous(authored, bucket) ==
    IF parse(bucket) = None
    THEN Panicked
    ELSE _check_ratelimit(IF authored.author = None THEN 0 ELSE authored.author[1],
                          authored.guild_id, parse(bucket)[1])

\* check_ratelimit: `authored.author()?` returns None before the name is
\* parsed; `parse().unwrap()` panics on a string that is no BucketName
check_ratelimit(authored, bucket) ==
    IF authored.author = None
    THEN NotTaken
    ELSE IF parse(bucket) = None
         THEN Panicked
         ELSE _check_ratelimit(authored.author[1], authored.guild_id, parse(bucket)[1])

\* The effect of one rate-limit check on the registry; a check that passed
\* after a take is logged under the key with the time it passed at.
ApplyRatelimit(authored, bucket) ==
    LET r == check_ratelimit(authored, bucket)
    IN  /\ buckets' = IF r.key = None THEN buckets ELSE [buckets EXCEPT ![bucket] = r.elem]
        /\ granted' = IF r.result = None /\ r.key # None
                      THEN [granted EXCEPT ![bucket][r.key[1]] = Append(@, now)]
                      ELSE granted

\* The same take made on the shadow registry, unless it is one of the
\* rejected takes the shadow run leaves out.
ShadowTake(authored, bucket, left_out) ==
    LET r == check_ratelimit(authored, bucket)
        s == take(shadow[bucket], r.key[1], now)
    IN  IF r.key = None \/ (left_out /\ r.result # None)
        THEN /\ shadow' = shadow
             /\ rlTrace' = [taken |-> r.taken, shadow |-> None, panic |-> r.panic]
        ELSE /\ shadow' = [shadow EXCEPT ![bucket] = s.elem]
             /\ rlTrace' = [taken |-> r.taken, shadow |-> Some(s.cooldown), panic |-> r.panic]

\* One rate-limit check by one of the given Authoreds, naming one of the
\* given buckets, while fewer than `bound` checks have been followed;
\* `leaving_out` says whether the shadow run may leave the take out.
CheckRatelimitFor(authoreds, args, bound, leaving_out) ==
    \E authored \in authoreds, bucket \in args, left_out \in leaving_out :
        /\ calls < bound
        /\ calls' = calls + 1
        /\ ApplyRatelimit(authored, bucket)
        /\ ShadowTake(authored, bucket, left_out)
        /\ rlCall' = Some([author |-> authored.author, guild_id |-> authored.guild_id,
                           bucket |-> bucket])
        /\ rlResult' = IF check_ratelimit(authored, bucket).panic
                       THEN None
                       ELSE Some(check_ratelimit(authored, bucket).result)
        /\ UNCHANGED << now, tasks, holder >>
        /\ UNCHANGED << gateVars, routerVars, sessionVars, cacheVars, rollVars, bgVars, mapVars, guildVars >>

\* One rate-limit check on an arbitrary Authored, naming a configured bucket.
CheckRatelimit == CheckRatelimitFor(Authoreds, BucketNames, MaxCalls, {FALSE})

\* One rate-limit check on an arbitrary Authored, naming an arbitrary bucket.
CheckNamed == CheckRatelimitFor(Authoreds, BucketArgs, MaxCalls, {FALSE})

\* The users writing in direct messages, and one more check of one of them
\* under a per-author bucket, for longer runs on few keys.
TakesAuthoreds == {authored \in Authoreds : authored.author # None /\ authored.guild_id = None}
CheckTake == CheckRatelimitFor(TakesAuthoreds, {"Other"}, MaxTakes, BOOLEAN)

\* Passes older than one Interval lie outside every window that a later pass
\* can fall into; the log keeps the rest.
Recent(times, time) == SelectSeq(times, LAMBDA t : t > time - Interval)

\* A second passes.
Tick ==
    /\ now < MaxTime
    /\ now' = now + 1
    /\ granted' = [b \in BucketNames |-> [k \in Keys |-> Recent(granted[b][k], now + 1)]]
    /\ UNCHANGED << buckets, rlCall, rlResult, rlTrace, shadow, calls, tasks, holder >>
    /\ UNCHANGED << gateVars, routerVars, sessionVars, cacheVars, rollVars, bgVars, mapVars, guildVars >>

\* Tasks that run check_ratelimit side by side, one request each.
NTasks == 3
Tasks == 1..NTasks

IdleTask == [pc |-> "idle", author |-> None, guild_id |-> None, bucket |-> None,
             key |-> None, seen |-> None, result |-> None]

\* a lock that never makes a task wait
MutexFreeAlways(bucket) == TRUE

\* one mutex for the whole registry
MutexFreeGlobal(bucket) == \A b \in BucketNames : holder[b] = None

\* Whether `mutex.lock()` on the bucket's mutex returns at once.
MutexFree(bucket) == holder[bucket] = None

\* A fixed order of the requests, by bucket, then guild, then author.
RequestOrder(author, guild_id, bucket) ==
    (CASE bucket = "Snipe" -> 0 [] bucket = "Songs" -> 1 [] OTHER -> 2) * 100
        + (IF guild_id = None THEN 0 ELSE guild_id[1]) * 10
        + author[1]

\* A task enters check_ratelimit for a request with an author and a
\* configured bucket, up to `ctx.buckets.get(&bucket).unwrap()`. The tasks
\* are interchangeable, so the requests go to them in the order of their
\* numbers and in the order of the requests.
TaskCall(t) ==
    /\ tasks[t].pc = "idle"
    /\ \A s \in Tasks : s < t => tasks[s].pc # "idle"
    /\ \E authored \in Authoreds, bucket \in BucketNames :
        /\ authored.author # None
        /\ \A s \in Tasks :
              s < t => RequestOrder(tasks[s].author, tasks[s].guild_id, tasks[s].bucket[1])
                          <= RequestOrder(authored.author, authored.guild_id, bucket)
        /\ tasks' = [tasks EXCEPT ![t] = [IdleTask EXCEPT !.pc = "lock",
                                                          !.author = authored.author,
                                                          !.guild_id = authored.guild_id,
                                                          !.bucket = Some(bucket)]]
    /\ UNCHANGED << now, buckets, granted, rlCall, rlResult, rlTrace, shadow, calls, holder >>
    /\ UNCHANGED << gateVars, routerVars, sessionVars, cacheVars, rollVars, bgVars, mapVars, guildVars >>

\* `let mut bucket_elem = mutex.lock()`: the task gets the bucket's mutex and
\* take starts, reading the counter of the key the match chose.
TaskLock(t) ==
    /\ tasks[t].pc = "lock"
    /\ MutexFree(tasks[t].bucket[1])
    /\ holder' = [holder EXCEPT ![tasks[t].bucket[1]] = Some(t)]
    /\ LET key == RatelimitKey(tasks[t].author[1], tasks[t].guild_id, tasks[t].bucket[1])
       IN  tasks' = [tasks EXCEPT ![t].pc = "take",
                                  ![t].key = Some(key),
                                  ![t].seen = Some(buckets[tasks[t].bucket[1]][key])]
    /\ UNCHANGED << now, buckets, granted, rlCall, rlResult, rlTrace, shadow, calls >>
    /\ UNCHANGED << gateVars, routerVars, sessionVars, cacheVars, rollVars, bgVars, mapVars, guildVars >>

\* take finishes on the counter it read and writes the counter back; the
\* guard is dropped at the end of the block and the check returns.
TaskTake(t) ==
    /\ tasks[t].pc = "take"
    /\ LET bucket == tasks[t].bucket[1]
           key == tasks[t].key[1]
           taken == take([buckets[bucket] EXCEPT ![key] = tasks[t].seen[1]], key, now)
       IN  /\ buckets' = [buckets EXCEPT ![bucket][key] = taken.elem[key]]
           /\ tasks' = [tasks EXCEPT ![t].pc = "done", ![t].result = Some(taken.cooldown)]
           /\ holder' = [holder EXCEPT ![bucket] = IF @ = Some(t) THEN None ELSE @]
    /\ UNCHANGED << now, granted, rlCall, rlResult, rlTrace, shadow, calls >>
    /\ UNCHANGED << gateVars, routerVars, sessionVars, cacheVars, rollVars, bgVars, mapVars, guildVars >>

\* ------------------------------------------------------------ CommandRouter

\* A command: whether it is privileged and the bucket it declares, if any.
Commands == [authority : BOOLEAN, bucket : {None} \cup {Some(b) : b \in BucketNames}]

\* The gates in the order the router runs them.
GateOrderSwapped == << "ratelimit", "authority" >>
GateOrder == << "authority", "ratelimit" >>

\* whether the command asks for the gate
Applies(cmd, gate) ==
    CASE gate = "authority" -> cmd.authority
      [] gate = "ratelimit" -> cmd.bucket # None

\* The stages an invocation of cmd passes: its gates, then the business logic.
StagesOf(cmd) == SelectSeq(GateOrder, LAMBDA gate : Applies(cmd, gate)) \o << "invoke" >>

\* The stage that follows `stage` for cmd.
Following(cmd, stage) ==
    StagesOf(cmd)[(CHOOSE i \in DOMAIN StagesOf(cmd) : StagesOf(cmd)[i] = stage) + 1]

\* an authority gate that lets everything but a denial through
AuthorityPassesUnlessDenied(result) == result.variant # "Denied"

\* Whether the gates let the invocation go on.
AuthorityPasses(result) == result.variant = "Allowed"
RatelimitPasses(result) == result = None

\* A request arrives and is parsed into an invocation, which has an actor id
\* and may have a guild.
RouterReceive ==
    /\ rpc = "idle"
    /\ calls < MaxCalls
    /\ calls' = calls + 1
    /\ \E authored \in Authoreds, cmd \in Commands :
        /\ authored.author # None
        /\ inv' = Some([author |-> authored.author, guild_id |-> authored.guild_id,
                        cmd |-> cmd])
        /\ rpc' = StagesOf(cmd)[1]
    /\ invAuth' = "NotRun"
    /\ invTakes' = 0
    /\ invCool' = None
    /\ UNCHANGED << outcome, now, buckets, granted, rlCall, rlResult, rlTrace, shadow,
                    tasks, holder >>
    /\ UNCHANGED << gateVars, sessionVars, cacheVars, rollVars, bgVars, mapVars, guildVars >>

InvAuthored == [author |-> inv[1].author, guild_id |-> inv[1].guild_id]

\* The authority gate: anything but Allowed ends the invocation.
RouterAuthority ==
    /\ rpc = "authority"
    /\ invAuth' = check_authority(InvAuthored).variant
    /\ IF AuthorityPasses(check_authority(InvAuthored))
       THEN /\ rpc' = Following(inv[1].cmd, "authority")
            /\ UNCHANGED << inv, outcome >>
       ELSE /\ rpc' = "idle"
            /\ UNCHANGED inv
            /\ outcome' = IF check_authority(InvAuthored).variant = "Denied"
                          THEN "NoAuthority" ELSE "Error"
    /\ UNCHANGED << invTakes, invCool >>
    /\ UNCHANGED << gateVars, bucketVars, sessionVars, cacheVars, rollVars, bgVars, mapVars, guildVars >>

\* The rate-limit gate: a positive cooldown ends the invocation.
RouterRatelimit ==
    /\ rpc = "ratelimit"
    /\ ApplyRatelimit(InvAuthored, inv[1].cmd.bucket[1])
    /\ invTakes' = invTakes + 1
    /\ invCool' = check_ratelimit(InvAuthored, inv[1].cmd.bucket[1]).taken
    /\ IF RatelimitPasses(check_ratelimit(InvAuthored, inv[1].cmd.bucket[1]).result)
       THEN /\ rpc' = Following(inv[1].cmd, "ratelimit")
            /\ UNCHANGED << inv, outcome >>
       ELSE /\ rpc' = "idle"
            /\ UNCHANGED inv
            /\ outcome' = "Ratelimited"
    /\ UNCHANGED << invAuth, now, rlCall, rlResult, rlTrace, shadow, calls, tasks, holder >>
    /\ UNCHANGED << gateVars, sessionVars, cacheVars, rollVars, bgVars, mapVars, guildVars >>

\* The business logic runs.
RouterInvoke ==
    /\ rpc = "invoke"
    /\ rpc' = "idle"
    /\ outcome' = "Success"
    /\ UNCHANGED << inv, invAuth, invTakes, invCool >>
    /\ UNCHANGED << gateVars, bucketVars, sessionVars, cacheVars, rollVars, bgVars, mapVars, guildVars >>

\* -------------------------------------------------------- ProfilePagination

\* The user who may control the session, and the `duration` start is given.
Owner == CHOOSE u \in Users : \A v \in Users : u <= v
Duration == 2
\* Reactions the stream holds at most.
MaxInbox == 2

\* ReactionType::Custom { name, .. } and ReactionType::Unicode { .. }
Custom(name) == [kind |-> "Custom", name |-> name]
Unicode == [kind |-> "Unicode", name |-> None]
ReactionTypes == {Custom(Some("expand")), Custom(Some("minimize")), Custom(Some("osu")), Unicode}
\* and a custom emoji whose name is not known
AnyReactionTypes == ReactionTypes \cup {Custom(None)}

\* Self::reactions()
reactions == << "Expand", "Minimize" >>

\* The user the bot is logged in as, and its reaction with an emote: what
\* delete_current_user_reaction(channel_id, msg.id, &emote.request_reaction()) names.
CurrentUser == 0
OwnReaction(emote) == [user |-> CurrentUser, emote |-> emote]

\* a filter that lets every user's reaction through
StreamFilterAnyUser(r, owner) == TRUE

\* the filter closure of wait_for_reaction_stream
StreamFilter(r, owner) == r.user_id = owner

\* the stream made without `.timeout(...)`: no item ever times out
NeverElapsed(since_item) == FALSE

\* a timeout that has run out as soon as it is armed
ElapsedAtOnce(since_item) == TRUE

\* Whether the per-item timeout of the stream has run out: `timeout` arms its
\* timer when the stream is made and again whenever the stream yields an item.
Elapsed(since_item) == since_item >= Duration

\* Whether start is inside `while let Some(Ok(reaction)) = reaction_stream.next().await`,
\* awaiting the stream.
PollingAfterError == spc \in {"waiting", "remove_msg"}
\* the stream polled while next_page still awaits its update_message
PollingWhileRendering == spc \in {"waiting", "rendering"}
Polling == spc = "waiting"

\* process_reaction toggling on every recognized name, whatever the state
process_reaction_toggle(min, reaction) ==
    IF reaction.kind = "Custom" /\ reaction.name # None
    THEN CASE reaction.name[1] = "expand" -> [change |-> "Change", minimized |-> FALSE]
           [] reaction.name[1] = "minimize" -> [change |-> "Change", minimized |-> TRUE]
           [] OTHER -> [change |-> "None", minimized |-> min]
    ELSE [change |-> "None", minimized |-> min]

\* process_reaction with every name but "minimize" read as "expand"
process_reaction_expand_by_default(min, reaction) ==
    IF reaction.kind = "Custom" /\ reaction.name # None
    THEN CASE reaction.name[1] = "minimize" ->
                IF min THEN [change |-> "None", minimized |-> min]
                       ELSE [change |-> "Change", minimized |-> TRUE]
           [] OTHER ->
                IF min THEN [change |-> "Change", minimized |-> FALSE]
                       ELSE [change |-> "None", minimized |-> min]
    ELSE [change |-> "None", minimized |-> min]

\* process_reaction: the PageChange and the new self.minimized
process_reaction(min, reaction) ==
    IF reaction.kind = "Custom" /\ reaction.name # None
    THEN CASE reaction.name[1] = "expand" ->
                IF min THEN [change |-> "Change", minimized |-> FALSE]
                       ELSE [change |-> "None", minimized |-> min]
           [] reaction.name[1] = "minimize" ->
                IF min THEN [change |-> "None", minimized |-> min]
                       ELSE [change |-> "Change", minimized |-> TRUE]
           [] OTHER -> [change |-> "None", minimized |-> min]
    ELSE [change |-> "None", minimized |-> min]

\* the embed next_page builds: as_builder when minimized, expand otherwise
EmbedOf(min) == IF min THEN "minimized" ELSE "expanded"

\* start returns: the stream is dropped with everything it still holds
Return(result) ==
    /\ phase' = "Closed"
    /\ spc' = "done"
    /\ retval' = Some(result)
    /\ inbox' = << >>

\* start is called: ctx.store_msg(self.msg.id)
Start ==
    /\ phase = "New"
    /\ phase' = "Active"
    /\ spc' = "send_reactions"
    /\ stored' = TRUE
    /\ UNCHANGED << minimized, inbox, idle, elapsed, sent, shown, inflight, lastReaction,
                    lastEvent, eventChange, eventUpdates, exitCause, removed, retval >>
    /\ UNCHANGED << allReply, ownRequests, finalUpdates >>
    /\ UNCHANGED << gateVars, bucketVars, routerVars, cacheVars, rollVars, bgVars, mapVars, guildVars >>

\* send_reaction(ctx, &self.msg, *emote).await?; after the last one the
\* reaction stream is made and its timeout armed
SendReaction ==
    /\ spc = "send_reactions"
    /\ \E ok \in BOOLEAN :
        IF ok
        THEN /\ sent' = sent + 1
             /\ spc' = IF sent + 1 = Len(reactions) THEN "waiting" ELSE "send_reactions"
             /\ idle' = 0
             /\ UNCHANGED << phase, retval, inbox, exitCause >>
        ELSE /\ Return("Err")
             /\ exitCause' = "send_reaction"
             /\ UNCHANGED << sent, idle >>
    /\ UNCHANGED << minimized, elapsed, stored, shown, inflight, lastReaction,
                    lastEvent, eventChange, eventUpdates, removed >>
    /\ UNCHANGED << allReply, ownRequests, finalUpdates >>
    /\ UNCHANGED << gateVars, bucketVars, routerVars, cacheVars, rollVars, bgVars, mapVars, guildVars >>

\* The gateway dispatches a ReactionAdd on the session's message; standby
\* passes it to the stream when the stream exists and its filter accepts it.
ReactionAdd ==
    /\ phase \in {"Active", "Closing"}
    /\ Len(inbox) < MaxInbox
    /\ \E user_id \in Users, emoji \in ReactionTypes :
        /\ lastReaction' = Some([user_id |-> user_id, emoji |-> emoji])
        /\ inbox' = IF /\ spc # "send_reactions"
                       /\ StreamFilter([user_id |-> user_id, emoji |-> emoji], Owner)
                    THEN Append(inbox, [user_id |-> user_id, emoji |-> emoji])
                    ELSE inbox
    /\ UNCHANGED << phase, spc, minimized, idle, elapsed, stored, sent, shown, inflight,
                    lastEvent, eventChange, eventUpdates, exitCause, removed, retval >>
    /\ UNCHANGED << allReply, ownRequests, finalUpdates >>
    /\ UNCHANGED << gateVars, bucketVars, routerVars, cacheVars, rollVars, bgVars, mapVars, guildVars >>

\* reaction_stream.next() yields Some(Ok(reaction)): the stream is polled
\* before the timer, and the item re-arms the timer; next_page runs up to
\* its update_message request.
StreamYield ==
    /\ Polling
    /\ inbox # << >>
    /\ inbox' = Tail(inbox)
    /\ idle' = 0
    /\ lastEvent' = Some(Head(inbox))
    /\ minimized' = process_reaction(minimized, Head(inbox).emoji).minimized
    /\ eventChange' = process_reaction(minimized, Head(inbox).emoji).change
    /\ IF process_reaction(minimized, Head(inbox).emoji).change = "Change"
       THEN /\ inflight' = inflight \o
                            Some(EmbedOf(process_reaction(minimized, Head(inbox).emoji).minimized))
            /\ eventUpdates' = 1
            /\ spc' = "rendering"
       ELSE /\ eventUpdates' = 0
            /\ UNCHANGED << inflight, spc >>
    /\ UNCHANGED << phase, elapsed, stored, sent, shown, lastReaction, exitCause, removed,
                    retval >>
    /\ UNCHANGED << allReply, ownRequests, finalUpdates >>
    /\ UNCHANGED << gateVars, bucketVars, routerVars, cacheVars, rollVars, bgVars, mapVars, guildVars >>

\* update_message answers, with an error returned from start by a `?`
UpdateReplyFatal ==
    /\ spc = "rendering"
    /\ inflight' = Tail(inflight)
    /\ \E ok \in BOOLEAN :
        IF ok
        THEN /\ shown' = inflight[1]
             /\ spc' = "waiting"
             /\ UNCHANGED << phase, retval, inbox >>
        ELSE /\ Return("Err")
             /\ UNCHANGED shown
    /\ UNCHANGED << minimized, idle, elapsed, stored, sent, lastReaction,
                    lastEvent, eventChange, eventUpdates, exitCause, removed >>
    /\ UNCHANGED << allReply, ownRequests, finalUpdates >>
    /\ UNCHANGED << gateVars, bucketVars, routerVars, cacheVars, rollVars, bgVars, mapVars, guildVars >>

\* update_message answers; an error is logged and the loop goes on
UpdateReply ==
    /\ spc = "rendering"
    /\ \E ok \in BOOLEAN : shown' = IF ok THEN inflight[1] ELSE shown
    /\ inflight' = Tail(inflight)
    /\ spc' = "waiting"
    /\ UNCHANGED << phase, minimized, inbox, idle, elapsed, stored, sent, lastReaction,
                    lastEvent, eventChange, eventUpdates, exitCause, removed, retval >>
    /\ UNCHANGED << allReply, ownRequests, finalUpdates >>
    /\ UNCHANGED << gateVars, bucketVars, routerVars, cacheVars, rollVars, bgVars, mapVars, guildVars >>

\* the loop ends for the given cause
LeaveLoop(cause) ==
    /\ phase' = "Closing"
    /\ spc' = "remove_msg"
    /\ exitCause' = cause
    /\ UNCHANGED << minimized, inbox, idle, elapsed, stored, sent, shown, inflight,
                    lastReaction, lastEvent, eventChange, eventUpdates, removed, retval >>
    /\ UNCHANGED << allReply, ownRequests, finalUpdates >>
    /\ UNCHANGED << gateVars, bucketVars, routerVars, cacheVars, rollVars, bgVars, mapVars, guildVars >>

\* reaction_stream.next() yields Some(Err(Elapsed)): no item is ready and the
\* timer has run out
StreamTimeout ==
    /\ Polling
    /\ inbox = << >>
    /\ Elapsed(idle)
    /\ LeaveLoop("timeout")

\* reaction_stream.next() yields None: standby is gone (the runtime shuts down)
StreamEnd ==
    /\ Polling
    /\ inbox = << >>
    /\ LeaveLoop("end")

\* remove_msg with its result ignored: the cleanup follows in every case
RemoveMsgIgnoringResult ==
    /\ spc = "remove_msg"
    /\ stored' = FALSE
    /\ spc' = "delete_all_reactions"
    /\ UNCHANGED << phase, retval, inbox >>
    /\ UNCHANGED << minimized, idle, elapsed, sent, shown, inflight, lastReaction,
                    lastEvent, eventChange, eventUpdates, exitCause, removed >>
    /\ UNCHANGED << allReply, ownRequests, finalUpdates >>
    /\ UNCHANGED << gateVars, bucketVars, routerVars, cacheVars, rollVars, bgVars, mapVars, guildVars >>

\* if !ctx.remove_msg(msg.id) { return Ok(()) }
RemoveMsg ==
    /\ spc = "remove_msg"
    /\ IF stored
       THEN /\ stored' = FALSE
            /\ spc' = "delete_all_reactions"
            /\ UNCHANGED << phase, retval, inbox >>
       ELSE /\ Return("Ok")
            /\ UNCHANGED stored
    /\ UNCHANGED << minimized, idle, elapsed, sent, shown, inflight, lastReaction,
                    lastEvent, eventChange, eventUpdates, exitCause, removed >>
    /\ UNCHANGED << allReply, ownRequests, finalUpdates >>
    /\ UNCHANGED << gateVars, bucketVars, routerVars, cacheVars, rollVars, bgVars, mapVars, guildVars >>

\* delete_all_reactions with every error answered by the removal of the own
\* reactions, whatever its status
DeleteAllReactionsFallbackOnAnyError ==
    /\ spc = "delete_all_reactions"
    /\ \E reply \in {"Ok", "403", "Err"} :
        /\ allReply' = reply
        /\ spc' = IF reply = "Ok" THEN "update" ELSE "delete_current_user_reaction"
    /\ UNCHANGED << phase, retval, inbox >>
    /\ UNCHANGED << minimized, idle, elapsed, stored, sent, shown, inflight, lastReaction,
                    lastEvent, eventChange, eventUpdates, exitCause, removed >>
    /\ UNCHANGED << ownRequests, finalUpdates >>
    /\ UNCHANGED << gateVars, bucketVars, routerVars, cacheVars, rollVars, bgVars, mapVars, guildVars >>

\* delete_all_reactions answers: Ok, a 403 response, or another error
DeleteAllReactions ==
    /\ spc = "delete_all_reactions"
    /\ \E reply \in {"Ok", "403", "Err"} :
        /\ allReply' = reply
        /\ CASE reply = "Ok" -> /\ spc' = "update"
                                /\ UNCHANGED << phase, retval, inbox >>
             [] reply = "403" -> /\ spc' = "delete_current_user_reaction"
                                 /\ UNCHANGED << phase, retval, inbox >>
             [] OTHER -> Return("Err")
    /\ UNCHANGED << minimized, idle, elapsed, stored, sent, shown, inflight, lastReaction,
                    lastEvent, eventChange, eventUpdates, exitCause, removed >>
    /\ UNCHANGED << ownRequests, finalUpdates >>
    /\ UNCHANGED << gateVars, bucketVars, routerVars, cacheVars, rollVars, bgVars, mapVars, guildVars >>

\* the removal of an own reaction with its error logged and the loop left
DeleteOwnReactionSwallowed ==
    /\ spc = "delete_current_user_reaction"
    /\ \E ok \in BOOLEAN :
        IF ok
        THEN /\ removed' = removed + 1
             /\ spc' = IF removed + 1 = Len(reactions)
                       THEN "update" ELSE "delete_current_user_reaction"
        ELSE /\ spc' = "update"
             /\ UNCHANGED removed
    /\ UNCHANGED << phase, retval, inbox >>
    /\ ownRequests' = Append(ownRequests, OwnReaction(reactions[removed + 1]))
    /\ UNCHANGED << minimized, idle, elapsed, stored, sent, shown, inflight, lastReaction,
                    lastEvent, eventChange, eventUpdates, exitCause >>
    /\ UNCHANGED << allReply, finalUpdates >>
    /\ UNCHANGED << gateVars, bucketVars, routerVars, cacheVars, rollVars, bgVars, mapVars, guildVars >>

\* delete_current_user_reaction(...).exec().await? for the next own reaction
DeleteOwnReaction ==
    /\ spc = "delete_current_user_reaction"
    /\ \E ok \in BOOLEAN :
        IF ok
        THEN /\ removed' = removed + 1
             /\ spc' = IF removed + 1 = Len(reactions)
                       THEN "update" ELSE "delete_current_user_reaction"
             /\ UNCHANGED << phase, retval, inbox >>
        ELSE /\ Return("Err")
             /\ UNCHANGED removed
    /\ ownRequests' = Append(ownRequests, OwnReaction(reactions[removed + 1]))
    /\ UNCHANGED << minimized, idle, elapsed, stored, sent, shown, inflight, lastReaction,
                    lastEvent, eventChange, eventUpdates, exitCause >>
    /\ UNCHANGED << allReply, finalUpdates >>
    /\ UNCHANGED << gateVars, bucketVars, routerVars, cacheVars, rollVars, bgVars, mapVars, guildVars >>

\* if !self.minimized { update_message with the minimized embed } Ok(())
FinalUpdate ==
    /\ spc = "update"
    /\ IF minimized
       THEN /\ Return("Ok")
            /\ UNCHANGED << shown, finalUpdates >>
       ELSE /\ finalUpdates' = finalUpdates + 1
            /\ \E ok \in BOOLEAN :
                IF ok THEN Return("Ok") /\ shown' = "minimized"
                      ELSE Return("Err") /\ UNCHANGED shown
    /\ UNCHANGED << minimized, idle, elapsed, stored, sent, inflight, lastReaction,
                    lastEvent, eventChange, eventUpdates, exitCause, removed >>
    /\ UNCHANGED << allReply, ownRequests >>
    /\ UNCHANGED << gateVars, bucketVars, routerVars, cacheVars, rollVars, bgVars, mapVars, guildVars >>

\* A second passes while the session's loop is alive.
SessionTick ==
    /\ phase = "Active"
    /\ elapsed' = Min(elapsed + 1, Duration + 1)
    /\ idle' = IF spc = "send_reactions" THEN idle ELSE Min(idle + 1, Duration)
    /\ UNCHANGED << phase, spc, minimized, inbox, stored, sent, shown, inflight,
                    lastReaction, lastEvent, eventChange, eventUpdates, exitCause, removed,
                    retval >>
    /\ UNCHANGED << allReply, ownRequests, finalUpdates >>
    /\ UNCHANGED << gateVars, bucketVars, routerVars, cacheVars, rollVars, bgVars, mapVars, guildVars >>

\* Another task takes the message out of the store while the session runs:
\* ctx.remove_msg(msg.id) called elsewhere, which start finds out by its own
\* remove_msg returning false.
MessageRemoved ==
    /\ phase \in {"Active", "Closing"}
    /\ stored
    /\ stored' = FALSE
    /\ UNCHANGED << phase, spc, minimized, inbox, idle, elapsed, sent, shown, inflight,
                    lastReaction, lastEvent, eventChange, eventUpdates, exitCause, removed,
                    retval >>
    /\ UNCHANGED << allReply, ownRequests, finalUpdates >>
    /\ UNCHANGED << gateVars, bucketVars, routerVars, cacheVars, rollVars, bgVars, mapVars, guildVars >>

\* the steps of the session's own task
TaskStep ==
    \/ Start
    \/ SendReaction
    \/ StreamYield
    \/ UpdateReply
    \/ StreamTimeout
    \/ RemoveMsg
    \/ DeleteAllReactions
    \/ DeleteOwnReaction
    \/ FinalUpdate

\* --------------------------------------------------------------- EntityCache

\* Member events delivered per member at most, and the ingesting tasks.
MaxEvents == 2
NWriters == 2
Writers == 1..NWriters

\* The guild whose members the events are about.
EventGuild == CHOOSE g \in Guilds : TRUE

\* entity-created / entity-updated events carry the member's roles, an
\* entity-deleted event carries nothing.
MemberEvents ==
    {[kind |-> "update", roles |-> rs] : rs \in {{}, {12}}} \cup {[kind |-> "delete", roles |-> {}]}

\* What apply(event) leaves cached for the entity the event describes.
Effect(event) == IF event.kind = "delete" THEN None ELSE Some(event.roles)

IdleWriter == [pc |-> "idle", entity |-> None, event |-> None]

\* writers that never wait for each other
EntityFreeAlways(u) == TRUE

\* Whether no writer is writing the entity: writers to one id are linearized.
EntityFree(u) == entityLock[u] = None

\* The gateway delivers the next event of a member.
Deliver(u) ==
    /\ Len(stream[u]) < MaxEvents
    /\ \E event \in MemberEvents : stream' = [stream EXCEPT ![u] = Append(@, event)]
    /\ UNCHANGED << handed, applied, writers, entityLock >>
    /\ UNCHANGED << gateVars, bucketVars, routerVars, sessionVars, rollVars, bgVars, mapVars, guildVars >>

\* A writer starts apply(event) on the oldest event of the member not yet
\* handed out, once no other writer is writing that member.
ApplyBegin(w, u) ==
    /\ writers[w].pc = "idle"
    /\ handed[u] < Len(stream[u])
    /\ EntityFree(u)
    /\ entityLock' = [entityLock EXCEPT ![u] = Some(w)]
    /\ handed' = [handed EXCEPT ![u] = @ + 1]
    /\ writers' = [writers EXCEPT ![w] = [pc |-> "apply", entity |-> Some(u),
                                          event |-> Some(stream[u][handed[u] + 1])]]
    /\ UNCHANGED << stream, applied >>
    /\ UNCHANGED << gateVars, bucketVars, routerVars, sessionVars, rollVars, bgVars, mapVars, guildVars >>

\* The writer's apply(event) updates the entity and returns.
ApplyEnd(w) ==
    /\ writers[w].pc = "apply"
    /\ LET u == writers[w].entity[1]
       IN  /\ members' = [members EXCEPT ![EventGuild][u] = Effect(writers[w].event[1])]
           /\ applied' = [applied EXCEPT ![u] = @ + 1]
           /\ entityLock' = [entityLock EXCEPT ![u] = IF @ = Some(w) THEN None ELSE @]
    /\ writers' = [writers EXCEPT ![w] = IdleWriter]
    /\ UNCHANGED << stream, handed >>
    /\ UNCHANGED << rolePerms, authorities, authCall, authResult, authPrev >>
    /\ UNCHANGED << bucketVars, routerVars, sessionVars, rollVars, bgVars, mapVars, guildVars >>

\* ---------------------------------------------------------------------- roll

\* u64 and i64, with Bits bits.
Bits == 7
U64Max == 2 ^ Bits - 1
I64Min == 0 - 2 ^ (Bits - 1)
I64Max == 2 ^ (Bits - 1) - 1

DEFAULT_LIMIT == 100

\* `as u64`: the value modulo 2^Bits
AsU64(n) == n % (2 ^ Bits)

\* The first argument of the message: up to MaxArgLen characters.
MaxArgLen == 3
Digits == << "0", "1", "2", "3", "4", "5", "6", "7", "8", "9" >>
ArgChars == {"0", "1", "2", "5", "7", "8", "+", "x"}
Args == UNION {[1..n -> ArgChars] : n \in 1..MaxArgLen}

IsDigit(ch) == \E d \in DOMAIN Digits : Digits[d] = ch
DigitValue(ch) == (CHOOSE d \in DOMAIN Digits : Digits[d] = ch) - 1

\* the decimal value of a sequence of digits
RECURSIVE Decimal(_)
Decimal(digits) ==
    IF digits = << >> THEN 0
    ELSE 10 * Decimal(SubSeq(digits, 1, Len(digits) - 1)) + DigitValue(digits[Len(digits)])

\* arg.parse::<u64>(): an optional plus sign and at least one digit, nothing
\* else; a value above u64::MAX is an error. None stands for Err(_).
parse_u64(arg) ==
    LET digits == IF arg[1] = "+" THEN Tail(arg) ELSE arg
    IN  IF digits = << >> \/ \E i \in DOMAIN digits : ~IsDigit(digits[i])
        THEN None
        ELSE IF Decimal(digits) > U64Max THEN None ELSE Some(Decimal(digits))

\* CommandData::Message { num, args, .. } and CommandData::Interaction with
\* its "limit" option, if given.
MessageData == [kind : {"Message"}, num : {None} \cup {Some(n) : n \in 0..U64Max},
                arg : {None, Some(<< "5" >>)}, limit : {None}]
                \cup [kind : {"Message"}, num : {None}, arg : {Some(a) : a \in Args}, limit : {None}]
InteractionData == [kind : {"Interaction"}, num : {None}, arg : {None},
                    limit : {None} \cup {Some(v) : v \in I64Min..I64Max}]
CommandDatas == MessageData \cup InteractionData

\* the match on `num` and the first argument in roll
message_limit(data) ==
    IF data.num # None
    THEN AsU64(data.num[1])
    ELSE IF data.arg = None THEN DEFAULT_LIMIT
         ELSE IF parse_u64(data.arg[1]) = None THEN DEFAULT_LIMIT
              ELSE parse_u64(data.arg[1])[1]

\* value.max(0) as u64, and limit.unwrap_or(DEFAULT_LIMIT) in slash_roll
slash_limit(data) ==
    IF data.limit = None
    THEN DEFAULT_LIMIT
    ELSE AsU64(IF data.limit[1] > 0 THEN data.limit[1] ELSE 0)

\* (limit + 1).max(2): the addition overflows for limit = u64::MAX, which
\* panics in a build with overflow checks and wraps to 0 in one without.
UpperBounds(limit) ==
    IF limit + 1 > U64Max
    THEN {[kind |-> "panic", value |-> 0], [kind |-> "value", value |-> 2]}
    ELSE {[kind |-> "value", value |-> IF limit + 1 > 2 THEN limit + 1 ELSE 2]}

\* roll matches on its CommandData and calls _roll or slash_roll with the limit
RollLimit ==
    /\ rollPc = "called"
    /\ rollLimit' = Some(IF rollData.kind = "Message" THEN message_limit(rollData)
                                                      ELSE slash_limit(rollData))
    /\ rollPc' = "limit"
    /\ UNCHANGED << rollData, rollOut >>
    /\ UNCHANGED << gateVars, bucketVars, routerVars, sessionVars, cacheVars, bgVars, mapVars, guildVars >>

\* rand::thread_rng().gen_range(1..(limit + 1).max(2))
RollNumber ==
    /\ rollPc = "limit"
    /\ \E upper \in UpperBounds(rollLimit[1]) :
        IF upper.kind = "panic"
        THEN rollOut' = Some([kind |-> "panic", num |-> 0])
        ELSE \E num \in 1..(upper.value - 1) : rollOut' = Some([kind |-> "number", num |-> num])
    /\ rollPc' = "done"
    /\ UNCHANGED << rollData, rollLimit >>
    /\ UNCHANGED << gateVars, bucketVars, routerVars, sessionVars, cacheVars, bgVars, mapVars, guildVars >>

\* --------------------------------------------------------------------- addbg

\* GameMode::STD and GameMode::MNA, named as the directories OSU and MANIA
Modes == {"osu", "mania"}

\* Attachment file names: the part before the first dot and the parts after.
Stems == {<< "1" >>, << "2" >>, << "x" >>}
Filenames == [stem : Stems, rest : {<< "png" >>, << "gif" >>, << >>}]
StoredName == [stem |-> << "1" >>, rest |-> << "png" >>]

\* The first argument of the message, if any.
ModeArgs == {"mna", "MNA", "osu", "x"}

\* cow_to_ascii_lowercase
Lower(arg) == IF arg = "MNA" THEN "mna" ELSE arg

\* the match on the lowercased first argument; None for the `_` arm
parse_mode(arg) ==
    IF arg = None THEN Some("osu")
    ELSE CASE Lower(arg[1]) \in {"mna", "mania", "m"} -> Some("mania")
           [] Lower(arg[1]) \in {"osu", "std", "standard", "o"} -> Some("osu")
           [] OTHER -> None

\* filename_split.next().map(u32::from_str): None for Err(_)
mapset_id_of(filename) ==
    IF \E i \in DOMAIN filename.stem : ~IsDigit(filename.stem[i]) THEN None
    ELSE IF filename.stem = << >> THEN None
         ELSE Some(Decimal(filename.stem))

\* the second part of the name is "jpg", "jpeg" or "png"
valid_filetype(filename) ==
    /\ filename.rest # << >>
    /\ filename.rest[1] \in {"jpg", "jpeg", "png"}

\* addbg returns the result of msg.error(...) or an Err
Rejected(why) == Some([kind |-> "rejected", why |-> why])
Failed(why) == Some([kind |-> "failed", why |-> why])
Added == Some([kind |-> "added", why |-> "none"])

\* The checks of the attachment, the mode and the file name.
AddBgValidate ==
    /\ bgPc = "called"
    /\ bgMode' = IF bgData.attachment = None THEN None ELSE parse_mode(bgData.arg)
    /\ IF bgData.attachment = None
       THEN bgOut' = Rejected("attachment") /\ bgPc' = "done"
       ELSE IF parse_mode(bgData.arg) = None
            THEN bgOut' = Rejected("mode") /\ bgPc' = "done"
            ELSE IF mapset_id_of(bgData.attachment[1]) = None
                 THEN bgOut' = Rejected("name") /\ bgPc' = "done"
                 ELSE IF ~valid_filetype(bgData.attachment[1])
                      THEN bgOut' = Rejected("filetype") /\ bgPc' = "done"
                      ELSE bgOut' = None /\ bgPc' = "store"
    /\ UNCHANGED << bgData, bgFiles, bgBefore, bgTags >>
    /\ UNCHANGED << gateVars, bucketVars, routerVars, sessionVars, cacheVars, rollVars, mapVars, guildVars >>

\* download_attachment, File::create (which truncates a file that exists)
\* and write_all
AddBgStore ==
    /\ bgPc = "store"
    /\ LET mode == bgMode[1]
           filename == bgData.attachment[1]
       IN  \E download \in BOOLEAN, create \in BOOLEAN, write \in BOOLEAN :
               IF ~download
               THEN /\ bgOut' = Failed("download")
                    /\ bgPc' = "done"
                    /\ UNCHANGED bgFiles
               ELSE IF ~create
                    THEN /\ bgOut' = Failed("create")
                         /\ bgPc' = "done"
                         /\ UNCHANGED bgFiles
                    ELSE IF ~write
                         THEN /\ bgOut' = Failed("write")
                              /\ bgPc' = "done"
                              /\ bgFiles' = [bgFiles EXCEPT ![mode][filename] = Some("partial")]
                         ELSE /\ bgOut' = None
                              /\ bgPc' = "prepare"
                              /\ bgFiles' = [bgFiles EXCEPT ![mode][filename] = Some("new")]
    /\ UNCHANGED << bgData, bgMode, bgBefore, bgTags >>
    /\ UNCHANGED << gateVars, bucketVars, routerVars, sessionVars, cacheVars, rollVars, mapVars, guildVars >>

\* prepare_mapset and, on its error, `let _ = remove_file(path).await`
AddBgPrepare ==
    /\ bgPc = "prepare"
    /\ LET mode == bgMode[1]
           filename == bgData.attachment[1]
           mapset_id == mapset_id_of(filename)[1]
       IN  \E known \in {"db", "api", "NotFound", "Err"}, tagged \in BOOLEAN, removed_ok \in BOOLEAN :
               IF known \in {"NotFound", "Err"} \/ mapset_id \in bgTags \/ ~tagged
               THEN /\ bgOut' = Rejected(IF known = "NotFound" THEN "unknown mapset"
                                         ELSE IF known = "Err" THEN "api"
                                         ELSE "entry exists")
                    /\ bgFiles' = IF removed_ok
                                  THEN [bgFiles EXCEPT ![mode][filename] = None]
                                  ELSE bgFiles
                    /\ UNCHANGED bgTags
               ELSE /\ bgOut' = Added
                    /\ bgTags' = bgTags \cup {mapset_id}
                    /\ UNCHANGED bgFiles
    /\ bgPc' = "done"
    /\ UNCHANGED << bgData, bgMode, bgBefore >>
    /\ UNCHANGED << gateVars, bucketVars, routerVars, sessionVars, cacheVars, rollVars, mapVars, guildVars >>

\* ------------------------------------------------------ prepare_beatmap_file

\* Concurrent calls for one map id, and the pieces write_all writes.
NCallers == 2
Callers == 1 .. NCallers
NChunks == 2
Chunks == 1 .. NChunks

\* the file holds every byte of the map
Complete(file) == file = Some(Chunks)

\* `if !map_path.exists()`: the body is skipped when the path exists
MapExists(t) ==
    /\ mapPc[t] = "called"
    /\ mapFile # None
    /\ mapPc' = [mapPc EXCEPT ![t] = "done"]
    /\ mapRet' = [mapRet EXCEPT ![t] = Some("Ok")]
    /\ mapSeen' = [mapSeen EXCEPT ![t] = mapFile]
    /\ UNCHANGED << mapFile, mapWritten, downloads >>
    /\ UNCHANGED << gateVars, bucketVars, routerVars, sessionVars, cacheVars, rollVars, bgVars, guildVars >>

\* the path does not exist: get_map_file is requested
MapMissing(t) ==
    /\ mapPc[t] = "called"
    /\ mapFile = None
    /\ mapPc' = [mapPc EXCEPT ![t] = "download"]
    /\ downloads' = downloads + 1
    /\ UNCHANGED << mapFile, mapWritten, mapRet, mapSeen >>
    /\ UNCHANGED << gateVars, bucketVars, routerVars, sessionVars, cacheVars, rollVars, bgVars, guildVars >>

\* `get_map_file(map_id).await?`
MapDownloaded(t) ==
    /\ mapPc[t] = "download"
    /\ \E ok \in BOOLEAN :
           IF ok
           THEN mapPc' = [mapPc EXCEPT ![t] = "create"] /\ UNCHANGED mapRet
           ELSE /\ mapPc' = [mapPc EXCEPT ![t] = "done"]
                /\ mapRet' = [mapRet EXCEPT ![t] = Some("Err")]
    /\ UNCHANGED << mapFile, mapWritten, mapSeen, downloads >>
    /\ UNCHANGED << gateVars, bucketVars, routerVars, sessionVars, cacheVars, rollVars, bgVars, guildVars >>

\* `File::create(&map_path).await?`: creates the file, or truncates it
MapCreate(t) ==
    /\ mapPc[t] = "create"
    /\ \E ok \in BOOLEAN :
           IF ok
           THEN /\ mapPc' = [mapPc EXCEPT ![t] = "write"]
                /\ mapFile' = Some({})
                /\ UNCHANGED mapRet
           ELSE /\ mapPc' = [mapPc EXCEPT ![t] = "done"]
                /\ mapRet' = [mapRet EXCEPT ![t] = Some("Err")]
                /\ UNCHANGED mapFile
    /\ UNCHANGED << mapWritten, mapSeen, downloads >>
    /\ UNCHANGED << gateVars, bucketVars, routerVars, sessionVars, cacheVars, rollVars, bgVars, guildVars >>

\* `file.write_all(&bytes).await?` writes the next piece at the handle's offset
MapWrite(t) ==
    /\ mapPc[t] = "write"
    /\ mapWritten[t] < NChunks
    /\ \E ok \in BOOLEAN :
           IF ok
           THEN /\ mapWritten' = [mapWritten EXCEPT ![t] = @ + 1]
                /\ mapFile' = Some(mapFile[1] \cup {mapWritten[t] + 1})
                /\ UNCHANGED << mapPc, mapRet >>
           ELSE /\ mapPc' = [mapPc EXCEPT ![t] = "done"]
                /\ mapRet' = [mapRet EXCEPT ![t] = Some("Err")]
                /\ UNCHANGED << mapFile, mapWritten >>
    /\ UNCHANGED << mapSeen, downloads >>
    /\ UNCHANGED << gateVars, bucketVars, routerVars, sessionVars, cacheVars, rollVars, bgVars, guildVars >>

\* write_all has written everything: `Ok(map_path)`
MapReturn(t) ==
    /\ mapPc[t] = "write"
    /\ mapWritten[t] = NChunks
    /\ mapPc' = [mapPc EXCEPT ![t] = "done"]
    /\ mapRet' = [mapRet EXCEPT ![t] = Some("Ok")]
    /\ mapSeen' = [mapSeen EXCEPT ![t] = mapFile]
    /\ UNCHANGED << mapFile, mapWritten, downloads >>
    /\ UNCHANGED << gateVars, bucketVars, routerVars, sessionVars, cacheVars, rollVars, bgVars, guildVars >>

\* ------------------------------------------------------------- insert_guilds

NGuilds == 2
GuildIds == 1 .. NGuilds

\* GuildConfig: with_lyrics stands for the stored fields, modified is the flag
GuildConfigs == [with_lyrics : BOOLEAN, modified : BOOLEAN]

\* Json(config): `modified` is skip_serializing
Json(config) == [with_lyrics |-> config.with_lyrics]

NoRows == [g \in GuildIds |-> None]

\* configs.retain(|_, config| config.modified)
retain_modified(map) ==
    [g \in GuildIds |-> IF map[g] # None /\ map[g][1].modified THEN map[g] ELSE None]

ConfigKeys(map) == {g \in GuildIds : map[g] # None}

GuildOk(n) == Some([kind |-> "Ok", n |-> n])
GuildErr == Some([kind |-> "Err", n |-> 0])

\* configs.retain(...), then `self.pool.begin().await?` and `counter = 0`
InsertGuildsBegin ==
    /\ guildPc = "called"
    /\ configs' = retain_modified(configs)
    /\ \E ok \in BOOLEAN :
           IF ok
           THEN /\ txn' = Some(NoRows)
                /\ todo' = ConfigKeys(retain_modified(configs))
                /\ guildPc' = "loop"
                /\ UNCHANGED guildRet
           ELSE /\ guildRet' = GuildErr
                /\ guildPc' = "done"
                /\ UNCHANGED << txn, todo >>
    /\ guildCounter' = 0
    /\ UNCHANGED << configsBefore, guilds, guildsBefore >>
    /\ UNCHANGED << gateVars, bucketVars, routerVars, sessionVars, cacheVars, rollVars, bgVars, mapVars >>

\* one iteration of `for guard in configs.iter()`: the upsert of one config
\* in the transaction; an error drops the transaction
InsertGuildsExecute(g) ==
    /\ guildPc = "loop"
    /\ g \in todo
    /\ \E ok \in BOOLEAN :
           IF ok
           THEN /\ txn' = Some([txn[1] EXCEPT ![g] = Some(Json(configs[g][1]))])
                /\ todo' = todo \ {g}
                /\ guildCounter' = guildCounter + 1
                /\ UNCHANGED << guildPc, guildRet >>
           ELSE /\ txn' = None
                /\ guildRet' = GuildErr
                /\ guildPc' = "done"
                /\ UNCHANGED << todo, guildCounter >>
    /\ UNCHANGED << configs, configsBefore, guilds, guildsBefore >>
    /\ UNCHANGED << gateVars, bucketVars, routerVars, sessionVars, cacheVars, rollVars, bgVars, mapVars >>

\* `txn.commit().await?` and `Ok(counter)`
InsertGuildsCommit ==
    /\ guildPc = "loop"
    /\ todo = {}
    /\ \E ok \in BOOLEAN :
           IF ok
           THEN /\ guilds' = [g \in GuildIds |->
                                 IF txn[1][g] # None THEN txn[1][g] ELSE guilds[g]]
                /\ guildRet' = GuildOk(guildCounter)
           ELSE /\ guildRet' = GuildErr
                /\ UNCHANGED guilds
    /\ txn' = None
    /\ guildPc' = "done"
    /\ UNCHANGED << configs, configsBefore, guildsBefore, todo, guildCounter >>
    /\ UNCHANGED << gateVars, bucketVars, routerVars, sessionVars, cacheVars, rollVars, bgVars, mapVars >>

\* ------------------------------------------------------------ initial states

InitGateIdle ==
    /\ authCall = None
    /\ authResult = None
    /\ authPrev = None

InitBuckets ==
    /\ now = 0
    /\ buckets = [b \in BucketNames |-> [k \in Keys |-> None]]
    /\ granted = [b \in BucketNames |-> [k \in Keys |-> << >>]]
    /\ rlCall = None
    /\ rlResult = None
    /\ rlTrace = [taken |-> None, shadow |-> None, panic |-> FALSE]
    /\ shadow = [b \in BucketNames |-> [k \in Keys |-> None]]
    /\ calls = 0
    /\ tasks = [t \in Tasks |-> IdleTask]
    /\ holder = [b \in BucketNames |-> None]

InitRouter ==
    /\ inv = None
    /\ rpc = "idle"
    /\ invAuth = "NotRun"
    /\ invTakes = 0
    /\ invCool = None
    /\ outcome = "None"

InitSession ==
    /\ phase = "New"
    /\ spc = "new"
    /\ minimized = TRUE
    /\ inbox = << >>
    /\ idle = 0
    /\ elapsed = 0
    /\ stored = FALSE
    /\ sent = 0
    /\ shown = "minimized"
    /\ inflight = None
    /\ lastReaction = None
    /\ lastEvent = None
    /\ eventChange = "None"
    /\ eventUpdates = 0
    /\ exitCause = "none"
    /\ removed = 0
    /\ allReply = "none"
    /\ ownRequests = << >>
    /\ finalUpdates = 0
    /\ retval = None

InitCacheIdle ==
    /\ stream = [u \in Users |-> << >>]
    /\ handed = [u \in Users |-> 0]
    /\ applied = [u \in Users |-> 0]
    /\ writers = [w \in Writers |-> IdleWriter]
    /\ entityLock = [u \in Users |-> None]

InitRollIdle ==
    /\ rollData = [kind |-> "Message", num |-> None, arg |-> None, limit |-> None]
    /\ rollPc = "idle"
    /\ rollLimit = None
    /\ rollOut = None

NoFiles == [m \in Modes |-> [f \in Filenames |-> None]]

InitAddBgIdle ==
    /\ bgData = [attachment |-> None, arg |-> None]
    /\ bgPc = "idle"
    /\ bgMode = None
    /\ bgFiles = None
    /\ bgBefore = None
    /\ bgTags = {}
    /\ bgOut = None

\* addbg is called with any message, with or without a stored background
\* named like the attachment and with or without entries in the tags table
InitAddBgCalled ==
    /\ bgData \in [attachment : {None} \cup {Some(f) : f \in Filenames},
                    arg : {None} \cup {Some(a) : a \in ModeArgs}]
    /\ bgPc = "called"
    /\ bgMode = None
    /\ bgFiles \in {[NoFiles EXCEPT ![m][StoredName] = Some("old")] : m \in Modes} \cup {NoFiles}
    /\ bgBefore = bgFiles
    /\ bgTags \in SUBSET {1}
    /\ bgOut = None

InitMapIdle ==
    /\ mapFile = None
    /\ mapPc = None
    /\ mapWritten = None
    /\ mapRet = None
    /\ mapSeen = None
    /\ downloads = 0

\* every caller has called prepare_beatmap_file for the same map id; the
\* file is absent or was stored completely by an earlier call
InitMapCalled ==
    /\ mapFile \in {None, Some(Chunks)}
    /\ mapPc = [t \in Callers |-> "called"]
    /\ mapWritten = [t \in Callers |-> 0]
    /\ mapRet = [t \in Callers |-> None]
    /\ mapSeen = [t \in Callers |-> None]
    /\ downloads = 0

InitGuildsIdle ==
    /\ configs = None
    /\ configsBefore = None
    /\ guilds = None
    /\ guildsBefore = None
    /\ txn = None
    /\ todo = {}
    /\ guildCounter = 0
    /\ guildPc = "idle"
    /\ guildRet = None

\* insert_guilds is called with any map of configs on any guilds table
InitGuildsCalled ==
    /\ configs \in [GuildIds -> {None} \cup {Some(config) : config \in GuildConfigs}]
    /\ configsBefore = configs
    /\ guilds \in [GuildIds -> {None, Some(Json([with_lyrics |-> TRUE, modified |-> FALSE]))}]
    /\ guildsBefore = guilds
    /\ txn = None
    /\ todo = {}
    /\ guildCounter = 0
    /\ guildPc = "called"
    /\ guildRet = None

\* roll is called with any CommandData
InitRollCalled ==
    /\ rollData \in CommandDatas
    /\ rollPc = "called"
    /\ rollLimit = None
    /\ rollOut = None

\* The cache before any event was applied: no member is cached.
InitEmptyCache ==
    /\ members = [g \in Guilds |-> [u \in Users |-> None]]
    /\ rolePerms = [r \in Roles |-> IF r = 11 THEN {ADMINISTRATOR} ELSE {}]
    /\ authorities = [g \in Guilds |-> << 12 >>]

\* Any cache and configuration: each member cached with some roles or not
\* cached, each role with or without the administrator bit, the authority
\* roles any list without repetition.
InitAnyCache ==
    /\ members \in [Guilds -> [Users -> {None} \cup {Some(rs) : rs \in SUBSET Roles}]]
    /\ rolePerms \in [Roles -> {{}, {ADMINISTRATOR}}]
    /\ authorities \in [Guilds -> DistinctSeqs(Roles, Cardinality(Roles))]

\* One guild where role 11 carries the administrator bit and role 12 is the
\* authority role; user 2 holds role 12 and user 1 anything.
InitSmallCache ==
    /\ members \in {[g \in Guilds |-> [u \in Users |-> IF u = 1 THEN m ELSE Some({12})]] :
                        m \in {None} \cup {Some(rs) : rs \in {{}, {11}}}}
    /\ rolePerms = [r \in Roles |-> IF r = 11 THEN {ADMINISTRATOR} ELSE {}]
    /\ authorities = [g \in Guilds |-> << 12 >>]

\* The cache and configuration of a guild nobody has configured.
InitFixedCache ==
    /\ members = [g \in Guilds |-> [u \in Users |-> Some({})]]
    /\ rolePerms = [r \in Roles |-> IF r = 11 THEN {ADMINISTRATOR} ELSE {}]
    /\ authorities = [g \in Guilds |-> << >>]

\* -------------------------------------------------------------- specifications

\* The authority check on every cache and configuration.
InitGate == InitAnyCache /\ InitGateIdle /\ InitBuckets /\ InitRouter /\ InitSession /\ InitCacheIdle /\ InitRollIdle /\ InitAddBgIdle /\ InitMapIdle /\ InitGuildsIdle
NextGate == CheckAuthority
SpecGate == InitGate /\ [][NextGate]_vars

\* Rate-limit checks as time passes.
InitRatelimit == InitFixedCache /\ InitGateIdle /\ InitBuckets /\ InitRouter /\ InitSession /\ InitCacheIdle /\ InitRollIdle /\ InitAddBgIdle /\ InitMapIdle /\ InitGuildsIdle
NextRatelimit == CheckRatelimit \/ Tick
SpecRatelimit == InitRatelimit /\ [][NextRatelimit]_vars

\* Rate-limit checks naming any bucket, configured or not, in one second.
NextNames == CheckNamed
SpecNames == InitRatelimit /\ [][NextNames]_vars

\* Many rate-limit checks on two keys of one bucket as time passes.
NextTakes == CheckTake \/ Tick
SpecTakes == InitRatelimit /\ [][NextTakes]_vars

\* Several tasks inside check_ratelimit in the same second.
NextConcurrent == \E t \in Tasks : TaskCall(t) \/ TaskLock(t) \/ TaskTake(t)
SpecConcurrent == InitRatelimit /\ [][NextConcurrent]_vars

\* The router taking invocations one after the other.
NextRouter == RouterReceive \/ RouterAuthority \/ RouterRatelimit \/ RouterInvoke
InitRouting == InitSmallCache /\ InitGateIdle /\ InitBuckets /\ InitRouter /\ InitSession /\ InitCacheIdle /\ InitRollIdle /\ InitAddBgIdle /\ InitMapIdle /\ InitGuildsIdle
SpecRouter == InitRouting /\ [][NextRouter]_vars

\* One profile session, the reactions it is sent and the time that passes.
InitPagination == InitFixedCache /\ InitGateIdle /\ InitBuckets /\ InitRouter /\ InitSession /\ InitCacheIdle /\ InitRollIdle /\ InitAddBgIdle /\ InitMapIdle /\ InitGuildsIdle
NextSession == TaskStep \/ ReactionAdd \/ StreamEnd \/ SessionTick
SpecSession == InitPagination /\ [][NextSession]_vars

\* One profile session whose message other tasks may take out of the store.
NextSessionStore == NextSession \/ MessageRemoved
SpecSessionStore == InitPagination /\ [][NextSessionStore]_vars

\* The same, with the runtime polling the session's task whenever it can
\* proceed and time passing.
FairSpecSession == SpecSession /\ WF_vars(TaskStep) /\ WF_vars(SessionTick)

\* Member events delivered and applied by several ingesting tasks, from an
\* empty cache.
InitIngest ==
    InitEmptyCache /\ InitGateIdle /\ InitBuckets /\ InitRouter /\ InitSession /\ InitCacheIdle /\ InitRollIdle /\ InitAddBgIdle /\ InitMapIdle /\ InitGuildsIdle
NextCache ==
    \/ \E u \in Users : Deliver(u)
    \/ \E w \in Writers, u \in Users : ApplyBegin(w, u)
    \/ \E w \in Writers : ApplyEnd(w)
SpecCache == InitIngest /\ [][NextCache]_vars

\* The roll command on every CommandData.
InitRoll ==
    /\ InitFixedCache /\ InitGateIdle /\ InitBuckets /\ InitRouter /\ InitSession
    /\ InitCacheIdle /\ InitRollCalled /\ InitAddBgIdle /\ InitMapIdle /\ InitGuildsIdle
NextRoll == RollLimit \/ RollNumber
SpecRoll == InitRoll /\ [][NextRoll]_vars

\* The addbg command on every message and outcome of its calls.
InitAddBg ==
    /\ InitFixedCache /\ InitGateIdle /\ InitBuckets /\ InitRouter /\ InitSession
    /\ InitCacheIdle /\ InitRollIdle /\ InitAddBgCalled /\ InitMapIdle /\ InitGuildsIdle
NextAddBg == AddBgValidate \/ AddBgStore \/ AddBgPrepare
SpecAddBg == InitAddBg /\ [][NextAddBg]_vars

\* Concurrent prepare_beatmap_file calls for one map id.
InitMapFile ==
    /\ InitFixedCache /\ InitGateIdle /\ InitBuckets /\ InitRouter /\ InitSession
    /\ InitCacheIdle /\ InitRollIdle /\ InitAddBgIdle /\ InitMapCalled /\ InitGuildsIdle
NextMapFile ==
    \E t \in Callers :
        \/ MapExists(t)
        \/ MapMissing(t)
        \/ MapDownloaded(t)
        \/ MapCreate(t)
        \/ MapWrite(t)
        \/ MapReturn(t)
SpecMapFile == InitMapFile /\ [][NextMapFile]_vars

\* insert_guilds on every map of configs and every outcome of its queries.
InitGuilds ==
    /\ InitFixedCache /\ InitGateIdle /\ InitBuckets /\ InitRouter /\ InitSession
    /\ InitCacheIdle /\ InitRollIdle /\ InitAddBgIdle /\ InitMapIdle /\ InitGuildsCalled
NextGuilds ==
    \/ InsertGuildsBegin
    \/ \E g \in GuildIds : InsertGuildsExecute(g)
    \/ InsertGuildsCommit
SpecGuilds == InitGuilds /\ [][NextGuilds]_vars

\* ------------------------------------------------------------------- claims

\* C1: for a privileged command no rate-limit take is made before the
\* authority check has returned Allowed; an invocation whose check returned
\* Denied or Indeterminate has made no take, and no step taken while it is the
\* router's last invocation changes a bucket counter.
C1_AuthorityBeforeRatelimit ==
    /\ [](\A i \in DOMAIN inv :
             (inv[i].cmd.authority /\ invTakes > 0) => invAuth = "Allowed")
    /\ [](invAuth \in {"Denied", "Indeterminate"} => invTakes = 0)
    /\ [][invAuth' \in {"Denied", "Indeterminate"} => buckets' = buckets]_vars

\* a privileged command that declares a bucket, refused by the authority
\* check after earlier invocations have taken from that bucket
C1_Witness ==
    /\ inv # None
    /\ inv[1].cmd.authority
    /\ inv[1].cmd.bucket # None
    /\ inv[1].author # None
    /\ invAuth \in {"Denied", "Indeterminate"}
    /\ rpc = "idle"
    /\ outcome \in {"NoAuthority", "Error"}
    /\ \E k \in Keys : buckets[inv[1].cmd.bucket[1]][k] # None

\* Passes logged for the key in the window of length Interval that starts at s.
PassesIn(b, k, s) ==
    Cardinality({i \in DOMAIN granted[b][k] :
                    s <= granted[b][k][i] /\ granted[b][k][i] < s + Interval})

TimerAndItemReady == spc = "waiting" /\ inbox # << >> /\ idle >= Duration

C3_TimerWinsTies == [][TimerAndItemReady => ~ StreamYield]_vars

C5_NonOwnerIgnored ==
    /\ [](\A i \in DOMAIN inbox : inbox[i].user_id = Owner)
    /\ [](\A i \in DOMAIN lastEvent : lastEvent[i].user_id = Owner)
    /\ [][(lastReaction' # lastReaction /\ lastReaction'[1].user_id # Owner)
            => /\ minimized' = minimized
               /\ inbox' = inbox
               /\ eventUpdates' = eventUpdates
               /\ inflight' = inflight
               /\ shown' = shown]_vars

\* a user other than the owner reacts with "expand" on a waiting, minimized session
C5_Witness ==
    /\ phase = "Active"
    /\ spc = "waiting"
    /\ minimized
    /\ inbox = << >>
    /\ lastReaction # None
    /\ lastReaction[1].user_id # Owner
    /\ lastReaction[1].emoji = Custom(Some("expand"))

\* The stream yields the owner's reaction with a recognized name.
YieldsRecognized ==
    /\ StreamYield
    /\ Head(inbox).user_id = Owner
    /\ Head(inbox).emoji \in {Custom(Some("expand")), Custom(Some("minimize"))}

\* C6 as stated: every reaction of the owner with a recognized name, handled
\* while the session is Active, flips self.minimized and issues exactly one
\* update_message, whatever self.minimized is.
C6_RecognizedAlwaysRenders ==
    [][YieldsRecognized => (minimized' # minimized /\ eventUpdates' = 1)]_vars

\* C6 amended: a reaction of the owner with a recognized name, handled while
\* Active, sets self.minimized to what the name asks for and changes nothing
\* else of the session; it issues exactly one update_message, with the embed
\* of the new state, when that changed self.minimized ("expand" on a
\* minimized view, "minimize" on an expanded one), and none when it did not.
C6_RecognizedRendersOnChange ==
    [][YieldsRecognized =>
        /\ minimized' = (Head(inbox).emoji = Custom(Some("minimize")))
        /\ UNCHANGED << phase, stored, sent, shown, exitCause, removed, retval >>
        /\ IF minimized' # minimized
           THEN eventUpdates' = 1 /\ inflight' = Some(EmbedOf(minimized'))
           ELSE eventUpdates' = 0 /\ inflight' = inflight]_vars

\* the owner's "expand" expanded the view and its re-render is under way
C6_Witness ==
    /\ phase = "Active"
    /\ lastEvent = Some([user_id |-> Owner, emoji |-> Custom(Some("expand"))])
    /\ eventChange = "Change"
    /\ ~ minimized
    /\ eventUpdates = 1
    /\ inflight = Some("expanded")

\* The last authority check ran for author u in guild g.
AuthCalled(u, g) ==
    /\ authCall # None
    /\ authCall[1].author = Some(u)
    /\ authCall[1].guild_id = Some(g)

\* The permission bits the cached roles give the member, none when the
\* member is not cached.
EffectivePermissions(u, g) ==
    IF members[g][u] = None THEN {} ELSE UNION {rolePerms[r] : r \in members[g][u][1]}

\* C7 as stated: whenever the authority check runs with a guild and the
\* actor's member record is not cached, the result is Indeterminate, whatever
\* the guild's authority role list is.
C7_MissingMemberIndeterminate ==
    \A u \in Users, g \in Guilds :
        (AuthCalled(u, g) /\ members[g][u] = None)
            => authResult[1].variant = "Indeterminate"

\* C7 amended: with a guild, an actor without the administrator bit and the
\* member record not cached, the result is Indeterminate when the guild's
\* authority role list is non-empty, and Denied with the admin guidance when
\* the list is empty.
C7_MissingMemberByList ==
    \A u \in Users, g \in Guilds :
        (AuthCalled(u, g) /\ members[g][u] = None
                          /\ ADMINISTRATOR \notin EffectivePermissions(u, g))
            => IF authorities[g] # << >>
               THEN authResult[1].variant = "Indeterminate"
               ELSE /\ authResult[1].variant = "Denied"
                    /\ authResult[1].content = AdminContent

C7_Witness ==
    \E u \in Users, g \in Guilds :
        /\ AuthCalled(u, g)
        /\ members[g][u] = None
        /\ authorities[g] # << >>
        /\ authResult[1].variant = "Indeterminate"

\* C8: for an actor without the administrator bit, in a guild whose
\* authority role list is non-empty and with the member cached, the check
\* returns Allowed exactly when one of the member's roles is in the list, and
\* Denied otherwise.
C8_AllowedIffAuthorityRole ==
    \A u \in Users, g \in Guilds :
        (AuthCalled(u, g) /\ members[g][u] # None /\ authorities[g] # << >>
                          /\ ADMINISTRATOR \notin EffectivePermissions(u, g))
            => IF members[g][u][1] \cap Range(authorities[g]) # {}
               THEN authResult[1].variant = "Allowed"
               ELSE authResult[1].variant = "Denied"

\* authority roles {11, 12}, the actor holds {12}: Allowed
C8_Witness ==
    \E u \in Users, g \in Guilds :
        /\ AuthCalled(u, g)
        /\ Range(authorities[g]) = {11, 12}
        /\ members[g][u] = Some({12})
        /\ ADMINISTRATOR \notin EffectivePermissions(u, g)
        /\ authResult[1].variant = "Allowed"

\* C9: when the actor's effective permissions in the guild hold the
\* administrator bit, the check returns Allowed and has consulted neither the
\* guild's authority role list nor the member record, whatever they hold.
C9_AdminShortCircuit ==
    \A u \in Users, g \in Guilds :
        (AuthCalled(u, g) /\ ADMINISTRATOR \in EffectivePermissions(u, g))
            => /\ authResult[1].variant = "Allowed"
               /\ authResult[1].reads \cap {"config", "member"} = {}

\* an administrator who holds none of the guild's authority roles
C9_Witness ==
    \E u \in Users, g \in Guilds :
        /\ AuthCalled(u, g)
        /\ ADMINISTRATOR \in EffectivePermissions(u, g)
        /\ authorities[g] # << >>
        /\ members[g][u][1] \cap Range(authorities[g]) = {}
        /\ authResult[1].variant = "Allowed"

\* C10: when the guild's authority role list is empty and the actor lacks the
\* administrator bit, the check returns Denied with the fixed text "You need
\* admin permissions to use this command." followed by the /authorities hint.
C10_EmptyListDenied ==
    \A u \in Users, g \in Guilds :
        (AuthCalled(u, g) /\ authorities[g] = << >>
                          /\ ADMINISTRATOR \notin EffectivePermissions(u, g))
            => /\ authResult[1].variant = "Denied"
               /\ authResult[1].content.text = "You need admin permissions to use this command.\n"
               /\ authResult[1].content.roles = << >>
               /\ authResult[1].content.footer =
                      "(/authorities to adjust authority status for this server)"

\* the empty list denies a member who is cached and one who is not
C10_Witness ==
    \E u, v \in Users, g \in Guilds :
        /\ AuthCalled(u, g)
        /\ authorities[g] = << >>
        /\ members[g][u] = None
        /\ members[g][v] # None
        /\ authResult[1].variant = "Denied"

\* C11: an authority check for a known author without a guild (a direct
\* message) returns Denied with the empty message, whatever the cache and the
\* guilds' configurations hold, and has read neither.
C11_NoGuildEmptyDenial ==
    \A u \in Users :
        (authCall # None /\ authCall[1].author = Some(u) /\ authCall[1].guild_id = None)
            => /\ authResult[1].variant = "Denied"
               /\ authResult[1].content.text = ""
               /\ authResult[1].content.roles = << >>
               /\ authResult[1].content.footer = ""
               /\ authResult[1].reads = {}

\* a direct message from a user who is cached as an administrator of a guild
\* whose authority roles the user also holds
C11_Witness ==
    \E u \in Users, g \in Guilds :
        /\ authCall # None
        /\ authCall[1].author = Some(u)
        /\ authCall[1].guild_id = None
        /\ ADMINISTRATOR \in EffectivePermissions(u, g)
        /\ members[g][u][1] \cap Range(authorities[g]) # {}
        /\ authResult[1].variant = "Denied"

\* The last check denied author u, cached in guild g, under a non-empty list.
DeniedCachedMember(u, g) ==
    /\ AuthCalled(u, g)
    /\ members[g][u] # None
    /\ authorities[g] # << >>
    /\ authResult[1].variant = "Denied"

ZeroTakers(b, k) ==
    {t \in Tasks : /\ tasks[t].pc = "done"
                   /\ tasks[t].bucket = Some(b)
                   /\ tasks[t].key = Some(k)
                   /\ tasks[t].result = Some(0)}

\* Tasks whose take on the key of the bucket has returned.
Takers(b, k) ==
    {t \in Tasks : /\ tasks[t].pc = "done"
                   /\ tasks[t].bucket = Some(b)
                   /\ tasks[t].key = Some(k)}

\* C14: with several tasks inside check_ratelimit at the same time, every
\* unit of a key is consumed by at most one of them: the takes that returned
\* zero cooldown and the units the counter still holds add up to Capacity, a
\* take that did not return zero returned a positive cooldown, and when more
\* tasks than Capacity have taken on a key exactly Capacity of them got zero.
C14_TakeAtomic ==
    \A b \in BucketNames, k \in Keys :
        /\ IF buckets[b][k] = None
           THEN ZeroTakers(b, k) = {}
           ELSE Cardinality(ZeroTakers(b, k)) + buckets[b][k][1].units = Capacity
        /\ \A t \in Takers(b, k) \ ZeroTakers(b, k) : tasks[t].result[1] > 0
        /\ Cardinality(Takers(b, k)) > Capacity
              => Cardinality(ZeroTakers(b, k)) = Capacity

\* one unit is left on a key; one task is inside take on it, another waits
\* for the mutex to take on the same key
C14_Witness ==
    \E t1, t2 \in Tasks, k \in Keys :
        /\ t1 # t2
        /\ buckets["Other"][k] # None
        /\ buckets["Other"][k][1].units = 1
        /\ tasks[t1].pc = "take" /\ tasks[t1].bucket = Some("Other") /\ tasks[t1].key = Some(k)
        /\ tasks[t2].pc = "lock" /\ tasks[t2].bucket = Some("Other")
        /\ RatelimitKey(tasks[t2].author[1], tasks[t2].guild_id, "Other") = k

\* C15: the cooldown every take returns is at least zero and at most
\* Interval, and a check that reports a cooldown reports the take's, which is
\* then positive.
C15_CooldownWithinInterval ==
    /\ \A i \in DOMAIN rlTrace.taken : rlTrace.taken[i] \in 0..Interval
    /\ \A i \in DOMAIN rlResult : \A j \in DOMAIN rlResult[i] :
          /\ rlResult[i][j].cooldown \in 1..Interval
          /\ rlTrace.taken = Some(rlResult[i][j].cooldown)

\* a take rejected one second after the key ran out of units, and a take
\* rejected in the very second the counter was stamped
C15_Witness ==
    /\ rlTrace.taken = Some(Interval - 1)
    /\ rlResult = Some(Some([cooldown |-> Interval - 1, bucket |-> "Other"]))
    /\ \E k \in Keys : /\ buckets["Other"][k] # None
                        /\ buckets["Other"][k][1].units = 0
                        /\ buckets["Other"][k][1].last_refill + 1 = now

\* C16: a rejected take leaves every counter of the registry as it was, and
\* in a run from which any of the rejected takes are left out every take
\* that is made returns the cooldown it returns in the full run.
C16_RejectedTakeHasNoEffect ==
    /\ [][(calls' = calls + 1 /\ rlTrace'.taken # None /\ rlTrace'.taken[1] > 0)
            => buckets' = buckets]_vars
    /\ [](rlTrace.shadow # None => rlTrace.shadow = rlTrace.taken)
    /\ [](shadow = buckets)

\* a key is refused, and after the unit came back the same key passes again
C16_Witness ==
    /\ calls > Capacity + 1
    /\ rlTrace.taken = Some(0)
    /\ rlTrace.shadow = Some(0)
    /\ now >= Interval
    /\ \E k \in Keys : /\ buckets["Other"][k] # None
                        /\ buckets["Other"][k][1].units = 0
                        /\ buckets["Other"][k][1].last_refill = now
                        /\ granted["Other"][k] = << now >>
                        /\ \A j \in Keys \ {k} : buckets["Other"][j] = None

\* The last rate-limit check named a bucket that is not configured.
NamedUnconfigured == rlCall # None /\ rlCall[1].bucket \notin DOMAIN buckets

\* Tasks whose check on the Snipe bucket has returned, and those of them
\* whose take returned zero cooldown.
SnipeTakers == {t \in Tasks : tasks[t].pc = "done" /\ tasks[t].bucket = Some("Snipe")}
SnipeZeroTakers == {t \in SnipeTakers : tasks[t].result = Some(0)}

\* C17: a check on the Snipe bucket takes with the key 0 whoever the author
\* and whatever the guild; no other counter of the bucket ever exists; and
\* the units are shared by all authors and guilds: at most Capacity Snipe
\* takes return zero cooldown, and once more than Capacity have returned
\* exactly Capacity of them did.
C17_SnipeSharedKey ==
    /\ \A t \in Tasks :
          (tasks[t].bucket = Some("Snipe") /\ tasks[t].key # None) => tasks[t].key = Some(0)
    /\ \A k \in Keys \ {0} : buckets["Snipe"][k] = None
    /\ Cardinality(SnipeZeroTakers) <= Capacity
    /\ Cardinality(SnipeTakers) > Capacity => Cardinality(SnipeZeroTakers) = Capacity

\* the units of Snipe went to one user, once in a guild and once in a direct
\* message, and another user is refused in the guild
C17_Witness ==
    \E t1, t2, t3 \in SnipeTakers :
        /\ tasks[t1].result = Some(0) /\ tasks[t2].result = Some(0)
        /\ tasks[t1].author = tasks[t2].author
        /\ tasks[t1].guild_id # None /\ tasks[t2].guild_id = None
        /\ tasks[t3].author # tasks[t1].author
        /\ tasks[t3].guild_id # None
        /\ tasks[t3].result # Some(0)
        /\ buckets["Snipe"][0][1].units = 0

\* C18 as stated: every rate-limit check naming a bucket that is not
\* configured ends in a panic and returns nothing.
C18_UnconfiguredAlwaysPanics ==
    NamedUnconfigured => (rlTrace.panic /\ rlResult = None)

\* C18 amended: a rate-limit check naming a bucket that is not configured
\* ends in a panic, returning nothing and taking nothing, when the Authored
\* has an author; when it has none, the check returns None (no cooldown: the
\* request counts as allowed) without a panic, before the name is looked at.
C18_UnconfiguredPanicsWithAuthor ==
    NamedUnconfigured
        => IF rlCall[1].author # None
           THEN rlTrace.panic /\ rlResult = None /\ rlTrace.taken = None
           ELSE ~ rlTrace.panic /\ rlResult = Some(None) /\ rlTrace.taken = None

\* a known author names a BucketName the registry has no entry for, after an
\* earlier check has taken from a configured bucket
C18_Witness ==
    /\ NamedUnconfigured
    /\ rlCall[1].bucket = Unlisted
    /\ rlCall[1].author # None
    /\ rlTrace.panic
    /\ \E b \in BucketNames, k \in Keys : buckets[b][k] # None

\* What the gates of the invocation at hand have returned lets it through:
\* Allowed if the command is privileged, a take with zero cooldown if it
\* declares a bucket.
GatesPassed ==
    /\ inv[1].cmd.authority => invAuth = "Allowed"
    /\ inv[1].cmd.bucket # None => (invTakes = 1 /\ invCool = Some(0))

\* C19: the business logic is invoked only for an invocation whose authority
\* check, if the command is privileged, returned Allowed and whose take, if
\* the command declares a bucket, returned zero cooldown; an invocation whose
\* check returned Denied or Indeterminate, or whose take returned a positive
\* cooldown, is over without the business logic having run.
C19_InvokedOnlyPastGates ==
    /\ [][RouterInvoke => GatesPassed]_vars
    /\ [](rpc = "invoke" => GatesPassed)
    /\ []((inv # None /\ rpc = "idle" /\ ~ GatesPassed)
              => outcome \in {"NoAuthority", "Error", "Ratelimited"})
    /\ []((invAuth \in {"Denied", "Indeterminate"}
              \/ (invCool # None /\ invCool # Some(0)))
              => (rpc = "idle" /\ outcome # "Success"))

\* a privileged command with a bucket ran its business logic after both
\* gates, while an earlier invocation used up a unit of the same key
C19_Witness ==
    /\ inv # None
    /\ rpc = "idle"
    /\ outcome = "Success"
    /\ inv[1].cmd.authority
    /\ inv[1].cmd.bucket # None
    /\ invAuth = "Allowed"
    /\ invCool = Some(0)
    /\ \E k \in Keys : /\ buckets[inv[1].cmd.bucket[1]][k] # None
                        /\ buckets[inv[1].cmd.bucket[1]][k][1].units = 0

\* start awaits the answer of a cleanup call: delete_all_reactions or the
\* removal of an own reaction.
InCleanupCall == spc \in {"delete_all_reactions", "delete_current_user_reaction"}

C22_OneRenderEventsQueued ==
    /\ [](Len(inflight) <= 1)
    /\ [](inflight # << >> <=> spc = "rendering")
    /\ [][inflight # << >> =>
            /\ lastEvent' = lastEvent
            /\ minimized' = minimized
            /\ \/ inbox' = inbox
               \/ /\ lastReaction' # None
                  /\ lastReaction'[1].user_id = Owner
                  /\ inbox' = Append(inbox, lastReaction'[1])]_vars
    /\ [][Len(inbox') < Len(inbox) /\ phase' = "Active" =>
            /\ inflight = << >>
            /\ inbox' = Tail(inbox)
            /\ lastEvent' = Some(Head(inbox))
            /\ minimized' = process_reaction(minimized, Head(inbox).emoji).minimized
            /\ Len(inflight') <= 1]_vars
    /\ [][phase = "Active" /\ phase' # "Active" => inbox = << >> /\ inflight = << >>]_vars

C22_Witness ==
    /\ phase = "Active"
    /\ inflight = << "minimized" >>
    /\ shown = "expanded"
    /\ Len(inbox) = MaxInbox
    /\ inbox[1].emoji = Custom(Some("expand"))
    /\ inbox[2].emoji = Custom(Some("minimize"))

\* how far a session has come
PhaseRank(p) ==
    CASE p = "New" -> 0 [] p = "Active" -> 1 [] p = "Closing" -> 2 [] p = "Closed" -> 3

LoopApplies(e) ==
    /\ phase = "Active"
    /\ phase' = "Active"
    /\ inbox # << >>
    /\ inbox' = Tail(inbox)
    /\ Head(inbox).emoji = e

\* C28: self.minimized is true until a reaction is applied; applying
\* "expand" to a minimized view expands it and reports Change, applying
\* "minimize" to an expanded view minimizes it and reports Change, every
\* other reaction (the same two on the view they lead to, another custom
\* name, a custom emoji without a name, a unicode emoji) leaves the flag
\* alone and reports None; Change is reported exactly when the flag flipped.
C28_ProcessReactionTable ==
    /\ [](lastEvent = None => minimized)
    /\ [][LoopApplies(Custom(Some("expand"))) /\ minimized =>
            ~minimized' /\ eventChange' = "Change"]_vars
    /\ [][LoopApplies(Custom(Some("minimize"))) /\ ~minimized =>
            minimized' /\ eventChange' = "Change"]_vars
    /\ [][\/ LoopApplies(Custom(Some("expand"))) /\ ~minimized
          \/ LoopApplies(Custom(Some("minimize"))) /\ minimized
          \/ LoopApplies(Custom(Some("osu")))
          \/ LoopApplies(Unicode)
          => minimized' = minimized /\ eventChange' = "None"]_vars
    /\ [][\A e \in ReactionTypes :
            LoopApplies(e) => (eventChange' = "Change" <=> minimized' # minimized)]_vars
    /\ [](\A min \in BOOLEAN, e \in AnyReactionTypes :
            /\ process_reaction(min, e).change \in {"Change", "None"}
            /\ process_reaction(min, e).change = "Change" <=>
                    process_reaction(min, e).minimized # min
            /\ e \notin {Custom(Some("expand")), Custom(Some("minimize"))} =>
                    process_reaction(min, e) = [change |-> "None", minimized |-> min])

C28_Witness ==
    /\ phase = "Active"
    /\ lastEvent = Some([user_id |-> Owner, emoji |-> Custom(Some("osu"))])
    /\ eventChange = "None"
    /\ ~minimized
    /\ shown = "expanded"

\* C30: whatever update_message answers, the step that receives the answer
\* keeps the session Active with start not returned, keeps the reactions the
\* stream holds and the time the timeout has run, and shows the new embed or,
\* on an error, the old one; afterwards the loop polls the stream again, so a
\* reaction the stream holds is applied next.
C30_FailedRenderKeepsSession ==
    /\ [][spc = "rendering" /\ spc' # "rendering" =>
            /\ phase' = "Active"
            /\ retval' = None
            /\ spc' = "waiting"
            /\ inbox' = inbox
            /\ idle' = idle
            /\ minimized' = minimized
            /\ shown' \in {shown, inflight[1]}]_vars
    /\ [](spc = "rendering" => phase = "Active" /\ retval = None)
    /\ [](phase = "Active" /\ spc = "waiting" /\ inbox # << >> => ENABLED StreamYield)
    /\ [](phase = "Active" /\ spc = "waiting" /\ inbox = << >> /\ idle >= Duration =>
            ENABLED StreamTimeout)

\* the view was expanded, that re-render failed (the message still shows the
\* minimized embed), and the owner's next reaction has been applied
C30_Witness ==
    /\ phase = "Active"
    /\ lastEvent = Some([user_id |-> Owner, emoji |-> Custom(Some("minimize"))])
    /\ eventChange = "Change"
    /\ minimized
    /\ inflight = << "minimized" >>
    /\ shown = "minimized"

\* the key a task inside check_ratelimit takes on
KeyOf(t) == RatelimitKey(tasks[t].author[1], tasks[t].guild_id, tasks[t].bucket[1])

\* the mutex is held by tasks inside take only, one per bucket, and no task
\* that has returned holds one
HeldOnlyInsideTake ==
    /\ \A b \in BucketNames : \A i \in DOMAIN holder[b] :
          /\ tasks[holder[b][i]].pc = "take"
          /\ tasks[holder[b][i]].bucket = Some(b)
    /\ \A t \in Tasks :
          /\ tasks[t].pc = "take" => holder[tasks[t].bucket[1]] = Some(t)
          /\ tasks[t].pc \in {"idle", "lock", "done"} =>
                \A b \in BucketNames : holder[b] # Some(t)

\* C26 as stated: a task waiting for the mutex waits only for a task that
\* takes on the same key of the same bucket, and the mutex is held only
\* inside take.
C26_WaitsOnlyForSameKey ==
    /\ \A t1, t2 \in Tasks :
          tasks[t1].pc = "lock" /\ tasks[t2].pc = "take" /\ tasks[t1].bucket = tasks[t2].bucket
              => KeyOf(t1) = tasks[t2].key[1]
    /\ HeldOnlyInsideTake

\* C26 amended: a task waiting for the mutex can go on exactly when no task
\* is inside take on the same bucket, whatever the keys: takes on different
\* buckets never wait for each other, takes on different keys of one bucket
\* do; and the mutex is held only inside take, never by a task that has
\* returned.
C26_WaitsOnlyForSameBucket ==
    /\ \A t \in Tasks :
          tasks[t].pc = "lock" =>
              (ENABLED TaskLock(t) <=> holder[tasks[t].bucket[1]] = None)
    /\ HeldOnlyInsideTake

\* a take on one author's key of "Other" waits while another author's take
\* on the same bucket holds the mutex, and a take on "Songs" is under way
C26_Witness ==
    \E t1, t2, t3 \in Tasks :
        /\ tasks[t1].pc = "lock" /\ tasks[t1].bucket = Some("Other")
        /\ tasks[t2].pc = "take" /\ tasks[t2].bucket = Some("Other")
        /\ KeyOf(t1) # tasks[t2].key[1]
        /\ tasks[t3].pc = "take" /\ tasks[t3].bucket = Some("Songs")

\* a step that is one rate-limit check, by an author, that did not panic
ChecksRatelimit ==
    /\ calls' = calls + 1
    /\ rlCall'[1].author # None
    /\ ~rlTrace'.panic

\* the key the claim gives a check on Songs or on a bucket that is neither
\* Snipe nor Songs
ClaimedKey(call) ==
    IF call.bucket = "Songs" /\ call.guild_id # None
    THEN call.guild_id[1]
    ELSE call.author[1]

\* C29: a check on Songs takes on the counter of the guild id when the
\* request has a guild and of the author id otherwise, a check on a bucket
\* that is neither Snipe nor Songs takes on the counter of the author id;
\* the check returns the cooldown of that counter and leaves every other
\* counter as it was, so checks by one author on such a bucket do not change
\* what another author's check returns.
C29_KeyDerivedFromBucket ==
    [][ChecksRatelimit /\ rlCall'[1].bucket # "Snipe" =>
         LET call == rlCall'[1]
             key == ClaimedKey(call)
         IN  /\ buckets'[call.bucket][key] # None
             /\ rlTrace'.taken = Some(take(buckets[call.bucket], key, now).cooldown)
             /\ \A b \in BucketNames, k \in Keys :
                   (b # call.bucket \/ k # key) => buckets'[b][k] = buckets[b][k]
             /\ call.bucket = "Songs" /\ call.guild_id # None => key \in Guilds
             /\ call.bucket = "Other" => key \in Users]_vars

\* one author has used up "Other" in a guild, and the check of another
\* author of the same guild on "Other" passes
C29_Witness ==
    /\ rlCall # None
    /\ rlCall[1].bucket = "Other"
    /\ rlCall[1].guild_id # None
    /\ rlCall[1].author # None
    /\ rlResult = Some(None)
    /\ \E u \in Users \ {rlCall[1].author[1]} :
          /\ buckets["Other"][u] # None
          /\ buckets["Other"][u][1].units = 0
    /\ buckets["Other"][rlCall[1].author[1]] # None
    /\ buckets["Other"][rlCall[1].author[1]][1].units = Capacity - 1
    /\ \A g \in Guilds : buckets["Other"][g] = None

\* the event whose effect the member's entry holds after n writes in stream order
StateAfter(u, n) == IF n = 0 THEN None ELSE Effect(stream[u][n])

\* no event of the member is waiting and no writer is writing the member
Quiescent(u) == handed[u] = Len(stream[u]) /\ entityLock[u] = None

\* C24: at most one writer is writing a member at a time; the writes to a
\* member finish in the order its events were delivered, so its entry is
\* always the effect of the last event applied so far in that order, and
\* once every delivered event has been applied it is the effect of the last
\* delivered event.
C24_LastDeliveredWins ==
    \A u \in Users :
        /\ Cardinality({w \in Writers : writers[w].entity = Some(u)}) <= 1
        /\ applied[u] <= handed[u]
        /\ handed[u] <= Len(stream[u])
        /\ handed[u] - applied[u] = Cardinality({w \in Writers : writers[w].entity = Some(u)})
        /\ member(EventGuild, u) = StateAfter(u, applied[u])
        /\ Quiescent(u) => member(EventGuild, u) = StateAfter(u, Len(stream[u]))

\* two writers are at work on different members while a second event of one
\* of the members waits, and that member's entry holds its first event
C24_Witness ==
    \E w1, w2 \in Writers, u \in Users :
        /\ w1 # w2
        /\ writers[w1].entity = Some(u)
        /\ writers[w2].pc = "apply"
        /\ writers[w2].entity # Some(u)
        /\ Len(stream[u]) = 2
        /\ applied[u] = 1
        /\ stream[u][1] # stream[u][2]
        /\ member(EventGuild, u) = Effect(stream[u][1])

\* the last event applied to the member's entry, if any was
LastApplied(u) == IF applied[u] = 0 THEN None ELSE Some(stream[u][applied[u]])

\* C25: a member to whose entry no event was applied, or a delete event was
\* applied last, is looked up as a miss and its permission computation
\* returns the miss, not a permission set; a member that is looked up as
\* present holds the roles of the update event applied last, and its
\* permissions are those of these roles.
C25_NeverFabricated ==
    \A u \in Users :
        /\ (LastApplied(u) = None \/ \E i \in DOMAIN LastApplied(u) :
                                        LastApplied(u)[i].kind = "delete")
              => /\ member(EventGuild, u) = None
                 /\ permissions_root(u, EventGuild) = None
        /\ \A i \in DOMAIN member(EventGuild, u) :
              /\ LastApplied(u) # None
              /\ LastApplied(u)[1].kind = "update"
              /\ member(EventGuild, u)[i] = LastApplied(u)[1].roles
              /\ permissions_root(u, EventGuild) =
                     Some(UNION {rolePerms[r] : r \in LastApplied(u)[1].roles})

\* one member was cached with a role and then deleted, the other never had
\* an event applied though one is delivered
C25_Witness ==
    \E u, v \in Users :
        /\ stream[u] = << [kind |-> "update", roles |-> {12}], [kind |-> "delete", roles |-> {}] >>
        /\ applied[u] = 2
        /\ applied[v] = 0
        /\ stream[v] # << >>
        /\ permissions_root(u, EventGuild) = None
        /\ permissions_root(v, EventGuild) = None

\* the upper limit L the claim speaks of: the number given, 0 for a negative
\* slash-command limit, 100 when none is given or the argument does not parse
GivenLimit(data) ==
    IF data.kind = "Interaction"
    THEN IF data.limit = None THEN 100
         ELSE IF data.limit[1] < 0 THEN 0 ELSE data.limit[1]
    ELSE IF data.num # None THEN data.num[1]
         ELSE IF data.arg = None THEN 100
              ELSE IF parse_u64(data.arg[1]) = None THEN 100 ELSE parse_u64(data.arg[1])[1]

\* C27: once roll has rolled, it has rolled a number n with 1 <= n <= L for
\* every upper limit L >= 1, where L is 100 when no limit is given or the
\* argument does not parse, and it has rolled 1 for a limit of 0 and for a
\* negative slash-command limit.
C27_RollWithinLimit ==
    rollPc = "done" =>
        /\ rollLimit = Some(GivenLimit(rollData))
        /\ rollOut[1].kind = "number"
        /\ rollOut[1].num >= 1
        /\ GivenLimit(rollData) >= 1 => rollOut[1].num <= GivenLimit(rollData)
        /\ GivenLimit(rollData) = 0 => rollOut[1].num = 1

\* the message argument is u64::MAX written out, it parsed, and the addition
\* in _roll overflowed: the build with overflow checks panicked
C27_Witness ==
    /\ rollPc = "done"
    /\ rollData.kind = "Message"
    /\ rollData.num = None
    /\ rollData.arg # None
    /\ parse_u64(rollData.arg[1]) = Some(U64Max)
    /\ rollLimit = Some(U64Max)
    /\ rollOut = Some([kind |-> "panic", num |-> 0])

\* C31: whenever the session is Active and its loop awaits the stream, the
\* embed the message shows is the one of self.minimized.
C31_ShownMatchesState ==
    (phase = "Active" /\ spc = "waiting") => shown = EmbedOf(minimized)

\* the owner's expand was applied and its update_message failed: the loop
\* awaits the stream with the view expanded and the message still minimized
C31_Witness ==
    /\ phase = "Active"
    /\ spc = "waiting"
    /\ lastEvent = Some([user_id |-> Owner, emoji |-> Custom(Some("expand"))])
    /\ eventChange = "Change"
    /\ ~minimized
    /\ shown = "minimized"
    /\ inflight = << >>

\* C32: a session that has ended with the view expanded has issued one
\* update_message after its loop, whatever the cleanup calls answered, and
\* when start returned Ok the message shows the minimized embed; a session
\* that has ended minimized has issued none.
C32_EndsShowingMinimized ==
    phase = "Closed" =>
        /\ ~minimized => finalUpdates = 1
        /\ (~minimized /\ retval = Some("Ok")) => shown = "minimized"
        /\ minimized => finalUpdates = 0

\* the view was expanded and shown, the loop timed out, delete_all_reactions
\* failed with a status other than 403: start has returned with the message
\* still expanded and no update issued
C32_Witness ==
    /\ phase = "Closed"
    /\ exitCause = "timeout"
    /\ ~minimized
    /\ shown = "expanded"
    /\ allReply = "Err"
    /\ finalUpdates = 0
    /\ retval = Some("Err")

\* C33: when start finds the message gone from the store after its loop, its
\* next step returns Ok with no delete_all_reactions, no
\* delete_current_user_reaction and no update_message issued, and the message
\* shows what it showed; delete_all_reactions is only ever called after a
\* remove_msg that found the message.
C33_NoCallsWhenNotStored ==
    /\ [][spc = "remove_msg" /\ ~stored /\ spc' # spc =>
            /\ phase' = "Closed"
            /\ retval' = Some("Ok")
            /\ allReply' = "none"
            /\ ownRequests' = << >>
            /\ finalUpdates' = 0
            /\ shown' = shown]_vars
    /\ [][allReply' # allReply => spc = "delete_all_reactions" /\ ~stored]_vars
    /\ [](phase = "Closed" /\ exitCause \in {"timeout", "end"} /\ allReply = "none" =>
            /\ ownRequests = << >>
            /\ finalUpdates = 0
            /\ retval = Some("Ok"))

\* the message left the store while the view was expanded; the loop timed
\* out and start returned without a call, the message still expanded
C33_Witness ==
    /\ phase = "Closed"
    /\ exitCause = "timeout"
    /\ ~stored
    /\ allReply = "none"
    /\ ownRequests = << >>
    /\ finalUpdates = 0
    /\ ~minimized
    /\ shown = "expanded"
    /\ retval = Some("Ok")

\* C34: once start has returned, by whatever path, the store no longer holds
\* the id of the session's message.
C34_StoreEmptiedOnReturn ==
    phase = "Closed" => ~stored

\* start stored the message, the first send_reaction failed, and start has
\* returned the error with the message still in the store
C34_Witness ==
    /\ phase = "Closed"
    /\ retval = Some("Err")
    /\ exitCause = "send_reaction"
    /\ sent = 0
    /\ stored
    /\ allReply = "none"

\* the Authored of the rate-limit check a step makes
CheckedAuthored == [author |-> rlCall'[1].author, guild_id |-> rlCall'[1].guild_id]

\* C35: a rate-limit check on an Authored without author, whatever bucket it
\* names (configured, not configured or no BucketName at all), calls take on
\* no bucket, leaves every counter as it was, does not panic and returns
\* None; check_authority on the same Authored returns the error
\* MissingInteractionAuthor.
C35_NoAuthorNotRatelimited ==
    /\ [][calls' = calls + 1 /\ rlCall'[1].author = None =>
            /\ rlTrace'.taken = None
            /\ ~rlTrace'.panic
            /\ rlResult' = Some(None)
            /\ buckets' = buckets
            /\ check_authority(CheckedAuthored).variant = "Indeterminate"
            /\ check_authority(CheckedAuthored).error = "MissingInteractionAuthor"]_vars
    /\ [](rlCall # None /\ rlCall[1].author = None => rlResult = Some(None))

\* an author used one unit of Snipe; the check that followed has no author,
\* names Snipe too and left the shared counter alone
C35_Witness ==
    /\ rlCall # None
    /\ rlCall[1].author = None
    /\ rlCall[1].bucket = "Snipe"
    /\ rlResult = Some(None)
    /\ buckets["Snipe"][0] # None
    /\ buckets["Snipe"][0][1].units = Capacity - 1
    /\ calls = 2

\* the errors of addbg: no attachment, a bad mode, a bad file name or type, a
\* failed download, an unknown mapset, a mapset id that has an entry
AddBgErrors ==
    {Rejected(why) : why \in {"attachment", "mode", "name", "filetype",
                               "unknown mapset", "entry exists"}}
        \cup {Failed("download")}

\* C36: an addbg that has ended in one of its errors has left every stored
\* background file as it was when addbg was called: none added, none
\* overwritten, none removed.
C36_ErrorLeavesFiles ==
    (bgPc = "done" /\ bgOut \in AddBgErrors) => bgFiles = bgBefore

\* a background named like the attachment was stored and its mapset has an
\* entry; addbg answered that the entry exists and the stored file is gone
C36_Witness ==
    /\ bgPc = "done"
    /\ bgOut = Rejected("entry exists")
    /\ bgData.attachment = Some(StoredName)
    /\ 1 \in bgTags
    /\ bgBefore["osu"][StoredName] = Some("old")
    /\ bgFiles["osu"][StoredName] = None

\* C37: in every interleaving of the calls for one map id, a call that
\* returned the path returned it when the file was completely written, and
\* the map file was requested at most once.
C37_ReturnsCompleteFileOnce ==
    /\ \A t \in Callers : mapRet[t] = Some("Ok") => Complete(mapSeen[t])
    /\ downloads <= 1

\* one call created the file and another, finding the path, returned it
\* before the first had written everything
C37_Witness ==
    \E t \in Callers, u \in Callers :
        /\ mapPc[t] = "write"
        /\ mapWritten[t] < NChunks
        /\ mapRet[u] = Some("Ok")
        /\ ~Complete(mapSeen[u])
        /\ downloads = 1

\* the guilds whose config had the modified flag set when insert_guilds was
\* called
ModifiedBefore == ConfigKeys(retain_modified(configsBefore))

\* C38: insert_guilds writes exactly the configs whose modified flag is set,
\* all of them or none, returns their number, and leaves the in-memory map
\* with the entries it had before the call.
C38_WritesModifiedKeepsMap ==
    guildPc = "done" =>
        /\ guildRet[1].kind = "Ok" =>
               /\ guildRet[1].n = Cardinality(ModifiedBefore)
               /\ \A g \in GuildIds :
                      guilds[g] = IF g \in ModifiedBefore
                                  THEN Some(Json(configsBefore[g][1]))
                                  ELSE guildsBefore[g]
        /\ guildRet[1].kind = "Err" => guilds = guildsBefore
        /\ configs = configsBefore

\* insert_guilds wrote the one modified config and returned 1, and the
\* unmodified config of another guild is no longer in the map
C38_Witness ==
    /\ guildPc = "done"
    /\ guildRet = GuildOk(1)
    /\ \E g \in GuildIds, h \in GuildIds :
           /\ g \in ModifiedBefore
           /\ guilds[g] = Some(Json(configsBefore[g][1]))
           /\ configsBefore[h] # None
           /\ ~configsBefore[h][1].modified
           /\ configs[h] = None

\* C39: for every limit roll arrives at, the exclusive upper bound it computes
\* is (limit + 1).max(2) within the unsigned 64-bit range: the addition does
\* not overflow, so roll neither panics nor wraps the bound around.
C39_UpperBoundNeverOverflows ==
    rollLimit # None =>
        /\ rollLimit[1] + 1 <= U64Max
        /\ UpperBounds(rollLimit[1]) =
               {[kind |-> "value",
                 value |-> IF rollLimit[1] + 1 > 2 THEN rollLimit[1] + 1 ELSE 2]}
        /\ rollPc = "done" => rollOut[1].kind = "number"

\* the limit came from `num` as u64::MAX and the build without overflow
\* checks wrapped limit + 1 to 0, so the bound was 2 and roll rolled 1
C39_Witness ==
    /\ rollPc = "done"
    /\ rollData.kind = "Message"
    /\ rollData.num = Some(U64Max)
    /\ rollLimit = Some(U64Max)
    /\ [kind |-> "value", value |-> 2] \in UpperBounds(rollLimit[1])
    /\ rollOut = Some([kind |-> "number", num |-> 1])

====
